---- MODULE Spec2Model ----
(***************************************************************************)
(* context-gather: token-bounded packing of source files into chunks.      *)
(*                                                                         *)
(* Text is kept as the sequence of tokens the tokenizer sees, so that      *)
(* count(text) is the length of the sequence.  Every literal of a format   *)
(* string is cut into a fixed number of tokens; a number is rendered in    *)
(* decimal and cut into groups of up to three digits, one token each, so   *)
(* that a marker grows when a count or an index reaches 1000.              *)
(***************************************************************************)
EXTENDS Integers, Sequences, FiniteSets, TLC

VARIABLES
    files,            \* Pipeline.file_data: the ordered FileContents
    chunk_limit,      \* chunk_limit / max_tokens argument
    escape_xml,       \* escape_xml argument
    git,              \* include_git and what the git commands answer
    now,              \* the clock read by make_header (seconds)
    pc,               \* position inside the running operation
    effective_limit,  \* build_chunks_with_header: effective_limit
    attempt,          \* build_chunks_with_header: attempt of the outer for
    bodies,           \* Vec<ChunkBody> of the current pass
    metas,            \* Vec<FileMeta> of the current pass
    max_blocks,       \* build_chunks_with_header: max_blocks
    splits,           \* build_chunks_with_header: splits
    header_oversize,  \* build_chunks_with_header: header_oversize
    scan,             \* locals of the inner loop after its for over the chunks
    chunks,           \* Vec<Chunk> returned by build_chunks
    rendered_chunks,  \* Pipeline.rendered_chunks
    result,           \* "none", "ok" or "err": what the operation returned
    warnings,         \* kinds of warn! lines logged by the running operation
    runs,             \* completed calls of build_chunks_with_header
    first_run,        \* rendered_chunks of the first completed call
    TOK,              \* tokenizer.rs: static TOK (OnceLock<CoreBPE>)
    env_model,        \* environment variable CG_TOKENIZER_MODEL
    tpc,              \* per thread: position inside tokenizer::init
    targ,             \* per thread: the model the running init resolved
    tret,             \* per thread: the last tokenizer call and what it returned
    candidate_files,  \* Pipeline.candidate_files
    call,             \* the function called directly and its arguments
    ret,              \* what the function called directly returned and logged
    cli,              \* struct Cli / Config: the options of the command line
    mpc,              \* position inside main, multi_step_mode or select_files_tui
    printed,          \* what was printed to stdout, one entry per print! or println!
    clipboard,        \* what was copied to the clipboard, one entry per copy
    exit_code,        \* exit code of the process, -1 while it runs
    stream_idx,       \* idx of the streaming loop (main, streaming_mode)
    panic_hook,       \* the process-wide panic hook, outermost closure first
    hook_guard,       \* the hook a live HookGuard holds, <<>> without one
    hook_ran          \* the hooks a panic has run, in order

packVars == <<files, chunk_limit, escape_xml, git, now, pc, effective_limit,
              attempt, bodies, metas, max_blocks, splits, header_oversize,
              scan, chunks, rendered_chunks, result, warnings, runs, first_run>>
tokVars == <<TOK, env_model, tpc, targ, tret>>
uiVars == <<candidate_files, call, ret, cli, mpc, printed, clipboard, exit_code,
            stream_idx, panic_hook, hook_guard, hook_ran>>
vars == <<packVars, tokVars, uiVars>>

-----------------------------------------------------------------------------
(* Bounds of the model *)

MaxFiles == 2
MaxLines == 2
MaxLongLines == 40
MaxMidLines == 9
MaxLimit == 32
MaxClock == 1
MaxRuns == 2
MaxThreads == 2

-----------------------------------------------------------------------------
(* Generic sequence helpers *)

\* the elements of ss one after the other (the range is halved at every level, so
\* that a long sequence needs no deep nesting)
Flatten(ss) ==
    LET RECURSIVE Over(_, _)
        Over(lo, hi) ==
            IF lo > hi THEN <<>>
            ELSE IF lo = hi THEN ss[lo]
            ELSE Over(lo, (lo + hi) \div 2) \o Over((lo + hi) \div 2 + 1, hi)
    IN Over(1, Len(ss))

SumSeq(ns) ==
    LET RECURSIVE Over(_, _)
        Over(lo, hi) ==
            IF lo > hi THEN 0
            ELSE IF lo = hi THEN ns[lo]
            ELSE Over(lo, (lo + hi) \div 2) + Over((lo + hi) \div 2 + 1, hi)
    IN Over(1, Len(ns))

Max2(a, b) == IF a >= b THEN a ELSE b
Min2(a, b) == IF a <= b THEN a ELSE b

\* usize saturating_sub
SatSub(a, b) == IF a >= b THEN a - b ELSE 0

Contains(s, t) == \E i \in 1..Len(s) : s[i] = t

FirstIndex(s, t) == CHOOSE i \in 1..Len(s) : s[i] = t /\ \A j \in 1..(i - 1) : s[j] # t

-----------------------------------------------------------------------------
(* Tokens *)

NL == "\n"

\* format!("{}", n) for a usize, as the tokenizer cuts it: the encoding splits a
\* run of digits from its left into groups of three (the last group holds what is
\* left) and every group is one token, so a number below 1000 is one token
Num(n) ==
    LET RECURSIVE Digits(_)
        Digits(m) ==
            IF m < 10 THEN <<ToString(m)>> ELSE Digits(m \div 10) \o <<ToString(m % 10)>>
        ds == Digits(n)
        Group(k) ==
            IF 3 * k <= Len(ds) THEN ds[3 * k - 2] \o ds[3 * k - 1] \o ds[3 * k]
            ELSE IF 3 * k - 1 <= Len(ds) THEN ds[3 * k - 2] \o ds[3 * k - 1]
            ELSE ds[3 * k - 2]
    IN [k \in 1..((Len(ds) + 2) \div 3) |-> Group(k)]

\* tokenizer::count on a text kept as its token sequence
Count(text) == Len(text)

-----------------------------------------------------------------------------
(* context/xml.rs *)

EscapeToken(t, escape_quotes) ==
    CASE t = "&" -> <<"&", "amp;">>
      [] t = "<" -> <<"&", "lt;">>
      [] t = ">" -> <<"&", "gt;">>
      [] t = "\"" /\ escape_quotes -> <<"&", "quot;">>
      [] t = "'" /\ escape_quotes -> <<"&", "apos;">>
      [] OTHER -> <<t>>

RECURSIVE escape_xml_inner(_, _)
escape_xml_inner(s, escape_quotes) ==
    IF s = <<>> THEN <<>>
    ELSE EscapeToken(Head(s), escape_quotes) \o escape_xml_inner(Tail(s), escape_quotes)

needs_escape_attr_amp(s) == \E i \in 1..Len(s) : s[i] = "&"

needs_escape_attr(s) == \E i \in 1..Len(s) : s[i] \in {"&", "<", ">", "\"", "'"}

maybe_escape_text(s, esc) == IF esc THEN escape_xml_inner(s, FALSE) ELSE s

maybe_escape_attr(s, esc) ==
    IF esc \/ needs_escape_attr(s) THEN escape_xml_inner(s, TRUE) ELSE s

-----------------------------------------------------------------------------
(* Paths: a path is the sequence of its components *)

RECURSIVE JoinSlash(_)
JoinSlash(comps) ==
    IF comps = <<>> THEN <<>>
    ELSE IF Len(comps) = 1 THEN <<comps[1]>>
    ELSE <<comps[1], "/">> \o JoinSlash(Tail(comps))

\* path.to_slash_lossy()
PathStr(path) == JoinSlash(path)
\* path.file_name()
FileName(path) == IF path = <<>> THEN <<>> ELSE <<path[Len(path)]>>
\* path.parent(), "." when empty
FolderDisplay(path) ==
    IF Len(path) <= 1 THEN <<".">> ELSE JoinSlash(SubSeq(path, 1, Len(path) - 1))

-----------------------------------------------------------------------------
(* context/chunker.rs *)

FileBlockHead(path, esc) ==
    <<"    <file-contents", " path=\"">> \o maybe_escape_attr(PathStr(path), esc)
    \o <<"\" name=\"">> \o maybe_escape_attr(FileName(path), esc)
    \o <<"\" folder=\"">> \o maybe_escape_attr(FolderDisplay(path), esc)

wrap_file(path, body, esc) ==
    FileBlockHead(path, esc) \o <<"\">\n">> \o body \o <<NL, "    </file-contents>\n">>

wrap_part(path, idx, total, body, esc) ==
    FileBlockHead(path, esc) \o <<"\" part=\"">> \o Num(idx) \o <<"/">> \o Num(total)
    \o <<"\">\n">> \o body \o <<"    </file-contents>\n">>

\* the places of the newlines of s, in order
NewlinesOf(s) ==
    LET RECURSIVE Over(_, _)
        Over(lo, hi) ==
            IF lo > hi THEN <<>>
            ELSE IF lo = hi THEN (IF s[lo] = NL THEN <<lo>> ELSE <<>>)
            ELSE Over(lo, (lo + hi) \div 2) \o Over((lo + hi) \div 2 + 1, hi)
    IN Over(1, Len(s))

\* contents.split('\n'): the text before the first newline, between two newlines
\* that follow each other, and after the last one
SplitNL(s) ==
    LET at == NewlinesOf(s)
    IN [k \in 1..(Len(at) + 1) |->
            SubSeq(s, IF k = 1 THEN 1 ELSE at[k - 1] + 1,
                      IF k = Len(at) + 1 THEN Len(s) ELSE at[k] - 1)]

\* .map(|line| format!("{line}\n"))
AddNL(ls) == [i \in 1..Len(ls) |-> ls[i] \o <<NL>>]

LinesOf(contents) == AddNL(SplitNL(contents))

PartTokens(path, idx, total, body, esc) == Count(wrap_part(path, idx, total, body, esc))

\* faulty variant: every line is a part of its own
SplitStep_single(st, line, path, max_tokens, esc, total_parts) ==
    [parts |-> Append(st.parts, line), current |-> <<>>, part_idx |-> st.part_idx + 1,
     warns |-> st.warns
               + (IF PartTokens(path, st.part_idx, total_parts, line, esc) > max_tokens
                  THEN 1 ELSE 0)]

\* faulty variant: a line is added to a part begun whatever the part then counts
SplitStep_greedy(st, line, path, max_tokens, esc, total_parts) ==
    IF st.current = <<>> THEN
        IF PartTokens(path, st.part_idx, total_parts, line, esc) > max_tokens
        THEN [parts |-> Append(st.parts, line), current |-> <<>>,
              part_idx |-> st.part_idx + 1, warns |-> st.warns + 1]
        ELSE [st EXCEPT !.current = line]
    ELSE [st EXCEPT !.current = st.current \o line]

\* one turn of the for loop of split_with_total
SplitStep(st, line, path, max_tokens, esc, total_parts) ==
    IF st.current = <<>> THEN
        IF PartTokens(path, st.part_idx, total_parts, line, esc) > max_tokens
        THEN [parts |-> Append(st.parts, line), current |-> <<>>,
              part_idx |-> st.part_idx + 1, warns |-> st.warns + 1]
        ELSE [st EXCEPT !.current = line]
    ELSE
        IF PartTokens(path, st.part_idx, total_parts, st.current \o line, esc) <= max_tokens
        THEN [st EXCEPT !.current = st.current \o line]
        ELSE IF PartTokens(path, st.part_idx + 1, total_parts, line, esc) > max_tokens
             THEN [parts |-> st.parts \o <<st.current, line>>, current |-> <<>>,
                   part_idx |-> st.part_idx + 2, warns |-> st.warns + 1]
             ELSE [parts |-> Append(st.parts, st.current), current |-> line,
                   part_idx |-> st.part_idx + 1, warns |-> st.warns]

\* the for loop of split_with_total: the lines are taken first to last.  The
\* range is halved at every level so that a long file needs no deep nesting, and
\* the state after the first half (whose part_idx is 1 or more, as at every turn)
\* is worked out before the second half is begun
SplitLoop(st, lines, path, max_tokens, esc, total_parts) ==
    LET RECURSIVE Over(_, _, _)
        Over(s, lo, hi) ==
            IF lo > hi THEN s
            ELSE IF lo = hi
                 THEN SplitStep(s, lines[lo], path, max_tokens, esc, total_parts)
                 ELSE LET first == Over(s, lo, (lo + hi) \div 2)
                      IN IF first.part_idx >= 1
                         THEN Over(first, (lo + hi) \div 2 + 1, hi)
                         ELSE first
    IN Over(st, 1, Len(lines))

\* faulty variant: the part still being filled when the lines run out is lost
SplitFinish_drop(st) == [parts |-> st.parts, warns |-> st.warns]

\* lines 168-172: the unfinished part is the last part
SplitFinish(st) ==
    [parts |-> IF st.current # <<>> THEN Append(st.parts, st.current) ELSE st.parts,
     warns |-> st.warns]

\* split_with_total together with the number of warn! lines it logs
SplitRun(lines, path, max_tokens, esc, total_parts) ==
    SplitFinish(SplitLoop([parts |-> <<>>, current |-> <<>>, part_idx |-> 1, warns |-> 0],
                          lines, path, max_tokens, esc, total_parts))

split_with_total(lines, path, max_tokens, esc, total_parts) ==
    SplitRun(lines, path, max_tokens, esc, total_parts).parts

MaxSplitAttempts == 16

\* the for _ in 0..16 loop of split_file_into_parts, at its n-th turn
RECURSIVE SplitAttempt(_, _, _, _, _, _)
RECURSIVE SplitDecide(_, _, _, _, _, _, _)
SplitAttempt(n, target_parts, lines, path, max_tokens, esc) ==
    SplitDecide(n, target_parts,
                split_with_total(lines, path, max_tokens, esc, target_parts),
                lines, path, max_tokens, esc)

\* lines 189-193: return on agreement, else take the actual count as the next guess
SplitDecide(n, target_parts, parts, lines, path, max_tokens, esc) ==
    IF Max2(Len(parts), 1) = target_parts \/ n >= MaxSplitAttempts
    THEN [parts |-> parts, turns |-> n, converged |-> Max2(Len(parts), 1) = target_parts]
    ELSE SplitAttempt(n + 1, Max2(Len(parts), 1), lines, path, max_tokens, esc)

split_file_into_parts(contents, path, max_tokens, esc) ==
    SplitAttempt(1, 1, LinesOf(contents), path, max_tokens, esc).parts

BlockOf(xml) == [xml |-> xml, tokens |-> Count(xml)]

\* faulty variant: the meta of a whole file records the tokens of the wrapped block
WholeBlock_wrapped(file_id, file, contents_str, file_block) ==
    [blocks |-> <<BlockOf(file_block)>>,
     meta |-> [id |-> file_id, path |-> file.path, tokens |-> Count(file_block),
               parts |-> 1],
     warn |-> FALSE]

\* lines 215-226: the file is kept whole
WholeBlock(file_id, file, contents_str, file_block) ==
    [blocks |-> <<BlockOf(file_block)>>,
     meta |-> [id |-> file_id, path |-> file.path, tokens |-> Count(contents_str),
               parts |-> 1],
     warn |-> FALSE]

\* faulty variant: every part is wrapped with the part count guessed first (1)
PartBlocks_guess(file, parts, esc) ==
    [i \in 1..Len(parts) |-> BlockOf(wrap_part(file.path, i, 1, parts[i], esc))]

\* lines 231-246: every part is wrapped with the final part count
PartBlocks(file, parts, esc) ==
    [i \in 1..Len(parts) |->
        BlockOf(wrap_part(file.path, i, Max2(Len(parts), 1), parts[i], esc))]

FileMetaOf(file_id, file, contents_str, parts_count) ==
    [id |-> file_id, path |-> file.path, tokens |-> Count(contents_str),
     parts |-> parts_count]

\* lines 229-252: the file is split
SplitBlocks(file_id, file, contents_str, blocks, max_tokens) ==
    [blocks |-> blocks,
     meta |-> FileMetaOf(file_id, file, contents_str, Max2(Len(blocks), 1)),
     warn |-> \E i \in 1..Len(blocks) : blocks[i].tokens > max_tokens]

FileBlocksOf(file_id, file, contents_str, file_block, max_tokens, esc) ==
    IF max_tokens = 0 \/ Count(file_block) <= max_tokens
    THEN WholeBlock(file_id, file, contents_str, file_block)
    ELSE SplitBlocks(file_id, file, contents_str,
                     PartBlocks(file, split_file_into_parts(contents_str, file.path,
                                                            max_tokens, esc), esc),
                     max_tokens)

FileBlocksWith(file_id, file, contents_str, max_tokens, esc) ==
    FileBlocksOf(file_id, file, contents_str, wrap_file(file.path, contents_str, esc),
                 max_tokens, esc)

\* the per-file turn of the first loop of build_chunk_bodies
FileBlocks(file_id, file, max_tokens, esc) ==
    FileBlocksWith(file_id, file, maybe_escape_text(file.contents, esc), max_tokens, esc)

\* faulty variant: the limit 0 is not taken as "no limit"
PackStep_nozero(acc, block, max_tokens) ==
    IF acc.current.blocks # <<>> /\ acc.current.tokens + block.tokens > max_tokens
    THEN [done |-> Append(acc.done, acc.current),
          current |-> [blocks |-> <<block>>, tokens |-> block.tokens]]
    ELSE [done |-> acc.done,
          current |-> [blocks |-> Append(acc.current.blocks, block),
                       tokens |-> acc.current.tokens + block.tokens]]

\* faulty variant: the current body is closed only once it is over the limit
PackStep_after(acc, block, max_tokens) ==
    IF max_tokens > 0 /\ acc.current.blocks # <<>> /\ acc.current.tokens > max_tokens
    THEN [done |-> Append(acc.done, acc.current),
          current |-> [blocks |-> <<block>>, tokens |-> block.tokens]]
    ELSE [done |-> acc.done,
          current |-> [blocks |-> Append(acc.current.blocks, block),
                       tokens |-> acc.current.tokens + block.tokens]]

\* faulty variant: a block that fills the body to the limit exactly is taken not to fit
PackStep_strict(acc, block, max_tokens) ==
    IF max_tokens > 0 /\ acc.current.blocks # <<>>
       /\ acc.current.tokens + block.tokens >= max_tokens
    THEN [done |-> Append(acc.done, acc.current),
          current |-> [blocks |-> <<block>>, tokens |-> block.tokens]]
    ELSE [done |-> acc.done,
          current |-> [blocks |-> Append(acc.current.blocks, block),
                       tokens |-> acc.current.tokens + block.tokens]]

\* lines 261-272: close the current body when the block does not fit, then add the block
PackStep(acc, block, max_tokens) ==
    IF max_tokens > 0 /\ acc.current.blocks # <<>>
       /\ acc.current.tokens + block.tokens > max_tokens
    THEN [done |-> Append(acc.done, acc.current),
          current |-> [blocks |-> <<block>>, tokens |-> block.tokens]]
    ELSE [done |-> acc.done,
          current |-> [blocks |-> Append(acc.current.blocks, block),
                       tokens |-> acc.current.tokens + block.tokens]]

\* the for block in blocks loop: the blocks are taken first to last; the state
\* after the first half of the range (a current body of one block or more) is
\* worked out before the second half is begun
PackLoop(acc, blocks, max_tokens) ==
    LET RECURSIVE Over(_, _, _)
        Over(a, lo, hi) ==
            IF lo > hi THEN a
            ELSE IF lo = hi THEN PackStep(a, blocks[lo], max_tokens)
            ELSE LET first == Over(a, lo, (lo + hi) \div 2)
                 IN IF first.current.blocks # <<>>
                    THEN Over(first, (lo + hi) \div 2 + 1, hi)
                    ELSE first
    IN Over(acc, 1, Len(blocks))

\* lines 274-276
PackFinish(acc) ==
    IF acc.current.blocks # <<>> THEN Append(acc.done, acc.current) ELSE acc.done

\* the second loop of build_chunk_bodies: greedy grouping of the blocks
PackBlocks(blocks, max_tokens) ==
    PackFinish(PackLoop([done |-> <<>>, current |-> [blocks |-> <<>>, tokens |-> 0]],
                        blocks, max_tokens))

Assemble(per, max_tokens) ==
    [bodies |-> PackBlocks(Flatten([i \in 1..Len(per) |-> per[i].blocks]), max_tokens),
     metas |-> [i \in 1..Len(per) |-> per[i].meta],
     warn |-> \E i \in 1..Len(per) : per[i].warn]

build_chunk_bodies(fs, max_tokens, esc) ==
    Assemble([i \in 1..Len(fs) |-> FileBlocks(i - 1, fs[i], max_tokens, esc)], max_tokens)

BodyXml(body) == Flatten([i \in 1..Len(body.blocks) |-> body.blocks[i].xml])

ChunksOf(r) ==
    [chunks |-> [i \in 1..Len(r.bodies) |->
                    [index |-> i - 1, xml |-> BodyXml(r.bodies[i]),
                     tokens |-> r.bodies[i].tokens]],
     metas |-> r.metas, warn |-> r.warn]

build_chunks(fs, max_tokens, esc) == ChunksOf(build_chunk_bodies(fs, max_tokens, esc))

-----------------------------------------------------------------------------
(* context/header.rs *)

\* Utc::now().to_rfc3339_opts(SecondsFormat::Secs, true) at clock reading t
Timestamp(t) == <<"1970-01-01T00:00:0", ToString(t), "Z">>

FileRow(f, esc) ==
    <<"    <file", " id=\"">> \o Num(f.id) \o <<"\" path=\"">>
    \o maybe_escape_attr(PathStr(f.path), esc) \o <<"\" tokens=\"">>
    \o Num(f.tokens) \o <<"\" parts=\"">> \o Num(f.parts) \o <<"\"/>\n">>

\* faulty variant: only the row of the first file is written
FileMap_head(fmetas, esc) ==
    IF fmetas = <<>> THEN <<>> ELSE FileRow(Head(fmetas), esc)

RECURSIVE FileMap(_, _)
FileMap(fmetas, esc) ==
    IF fmetas = <<>> THEN <<>>
    ELSE FileRow(Head(fmetas), esc) \o FileMap(Tail(fmetas), esc)

Instructions(total_chunks, fmetas, multi_step) ==
    IF multi_step
    THEN <<"  <instructions>\n", "    This header lists ">> \o Num(Len(fmetas))
         \o <<" files available for context retrieval.", "  </instructions>\n">>
    ELSE <<"  <instructions>\n", "    The shared context is split into ">>
         \o Num(total_chunks)
         \o <<" chunks (including this header).", "  </instructions>\n">>

\* What the git commands of make_header return (lines 48-60, 63-88, 102-119), by
\* the state g of the directory: whether it is inside a work tree, the branch
\* rev-parse gives (<<>> when it fails, as before the first commit), the subjects
\* git log -5 gives, whether git diff --name-only origin/main succeeds, and the
\* files it names.  A name or a subject is the sequence of its tokens.
GitFacts(g) ==
    CASE g = "unavailable" ->
            [work_tree |-> FALSE, branch |-> <<>>, commits |-> <<>>,
             diff_ok |-> FALSE, changed |-> <<>>]
      [] g = "repo" ->
            [work_tree |-> TRUE, branch |-> <<<<"main">>>>,
             commits |-> <<<<"fix", "<", "bug">>>>,
             diff_ok |-> TRUE, changed |-> <<<<"a.rs">>>>]
      [] g = "clean" ->
            [work_tree |-> TRUE, branch |-> <<<<"main">>>>,
             commits |-> <<<<"fix", "<", "bug">>>>,
             diff_ok |-> TRUE, changed |-> <<>>]
      [] g = "nodiff" ->
            [work_tree |-> TRUE, branch |-> <<<<"main">>>>,
             commits |-> <<<<"fix", "<", "bug">>>>,
             diff_ok |-> FALSE, changed |-> <<>>]
      [] g = "nohead" ->
            [work_tree |-> TRUE, branch |-> <<>>, commits |-> <<>>,
             diff_ok |-> TRUE, changed |-> <<>>]
      [] g = "nohead_nodiff" ->
            [work_tree |-> TRUE, branch |-> <<>>, commits |-> <<>>,
             diff_ok |-> FALSE, changed |-> <<>>]
      [] g = "busy" ->
            [work_tree |-> TRUE, branch |-> <<<<"a", "&", "b">>>>,
             commits |-> <<<<"five">>, <<"four">>, <<"three">>, <<"two">>, <<"one">>>>,
             diff_ok |-> TRUE, changed |-> <<<<"a.rs">>, <<"src", "/", "2">>>>]

\* lines 90-100: the git-info block, or the comment when there is no branch
GitInfoXml(f, esc) ==
    IF f.branch # <<>>
    THEN <<"  <git-info", " branch=\"">> \o maybe_escape_attr(f.branch[1], esc) \o <<"\">\n">>
         \o Flatten([i \in 1..Len(f.commits) |->
                       <<"    <commit>">> \o maybe_escape_text(f.commits[i], esc)
                       \o <<"</commit>\n">>])
         \o <<"  </git-info>\n">>
    ELSE <<"  <!-- git info unavailable -->\n">>

\* lines 119-132: the changed files, nothing when the diff names none, or the
\* comment when the diff failed
DiffXml(f, esc) ==
    IF f.diff_ok /\ f.changed # <<>>
    THEN <<"  <changed-files", " diffed-against=\"origin/main\">\n">>
         \o Flatten([i \in 1..Len(f.changed) |->
                       <<"    <file>">> \o maybe_escape_text(f.changed[i], esc)
                       \o <<"</file>\n">>])
         \o <<"  </changed-files>\n">>
    ELSE IF ~f.diff_ok THEN <<"  <!-- git diff unavailable -->\n">>
    ELSE <<>>

\* lines 45-137: what make_header writes about git; g = "off" is include_git unset
GitInfo(g, esc) ==
    IF g = "off" THEN <<>>
    ELSE IF ~GitFacts(g).work_tree
    THEN <<"  <!-- git info unavailable -->\n", "  <!-- git diff unavailable -->\n">>
    ELSE GitInfoXml(GitFacts(g), esc) \o DiffXml(GitFacts(g), esc)

make_header(total_chunks, limit, fmetas, multi_step, esc, g, t) ==
    <<"<shared-context-header", " version=\"1\"", " total-chunks=\"">> \o Num(total_chunks)
    \o <<"\" chunk-size=\"">> \o Num(limit) \o <<"\" generated-at=\"">> \o Timestamp(t)
    \o <<"\">\n", "  <file-map", " total-files=\"">> \o Num(Len(fmetas)) \o <<"\">\n">>
    \o FileMap(fmetas, esc) \o <<"  </file-map>\n">>
    \o Instructions(total_chunks, fmetas, multi_step) \o GitInfo(g, esc)
    \o <<"</shared-context-header>\n">>

-----------------------------------------------------------------------------
(* output.rs *)

MoreMarker(rem) == <<"<more", " remaining=\"">> \o Num(rem) \o <<"\"/>\n">>
ClosingMarker == <<"</shared-context", ">\n">>
ChunkOpen(idx, total) == <<"<context-chunk", " id=\"">> \o Num(idx) \o <<"/">> \o Num(total) \o <<"\">\n">>
ChunkClose == <<"</context-chunk>\n">>

\* what follows a chunk: the more marker, or the closing tag after the last chunk
EndMarker(rem) == IF rem > 0 THEN MoreMarker(rem) ELSE ClosingMarker

\* faulty variant: a header that is the only chunk is left without the closing tag
render_chunk_snippet_open(header_xml, body_xmls, idx) ==
    IF idx = 0
    THEN header_xml \o (IF Len(body_xmls) > 0 THEN MoreMarker(Len(body_xmls)) ELSE <<>>)
    ELSE ChunkOpen(idx, Len(body_xmls) + 1) \o body_xmls[idx] \o ChunkClose
         \o EndMarker(SatSub(Len(body_xmls) + 1, idx + 1))

\* the on-wire snippet of chunk idx: chunk 0 is the header, chunk i > 0 the i-th body
render_chunk_snippet(header_xml, body_xmls, idx) ==
    (IF idx = 0 THEN header_xml
     ELSE ChunkOpen(idx, Len(body_xmls) + 1) \o body_xmls[idx] \o ChunkClose)
    \o EndMarker(SatSub(Len(body_xmls) + 1, idx + 1))

-----------------------------------------------------------------------------
(* pipeline.rs: Pipeline::build_chunks_with_header *)

MaxPasses == 8

\* faulty variant: the header advertises the number of bodies, itself not counted
HeaderXml_bodies(total_chunks, limit, fmetas, esc, g, t) ==
    <<"<shared-context>\n">>
    \o make_header(total_chunks - 1, limit, fmetas, FALSE, esc, g, t) \o <<NL>>

HeaderXml(total_chunks, limit, fmetas, esc, g, t) ==
    <<"<shared-context>\n">> \o make_header(total_chunks, limit, fmetas, FALSE, esc, g, t)
    \o <<NL>>

WrapperFloor(limit, total_chunks) ==
    IF limit > 0
    THEN SatSub(limit, Count(ChunkOpen(SatSub(total_chunks, 1), total_chunks)
                             \o ChunkClose \o ClosingMarker) + 2)
    ELSE 0

\* lines 263-287: what an oversize snippet does to the locals; required = -1 is None
ScanJudge(acc, idx, bs, limit, tokens) ==
    IF ~(limit > 0 /\ tokens > limit) THEN acc
    ELSE IF idx = 0 THEN [acc EXCEPT !.header_oversize = TRUE]
    ELSE IF Len(bs[idx].blocks) > 1 THEN [acc EXCEPT !.split = idx]
    ELSE IF bs[idx].blocks[1].tokens > limit
         THEN [acc EXCEPT !.oversize_single = Append(@, idx), !.has_unavoidable = TRUE]
         ELSE [acc EXCEPT
                 !.oversize_single = Append(@, idx),
                 !.required =
                    IF @ = -1
                    THEN Max2(SatSub(limit, SatSub(tokens, bs[idx].blocks[1].tokens)),
                              acc.wrapper_floor)
                    ELSE Min2(@, Max2(SatSub(limit, SatSub(tokens, bs[idx].blocks[1].tokens)),
                                      acc.wrapper_floor)),
                 !.max_over = Max2(@, SatSub(tokens, limit))]

\* lines 259-262: render the snippet, count it, keep both
ScanKeep(acc, idx, bs, limit, snippet) ==
    ScanJudge([acc EXCEPT !.tokens = Append(@, Count(snippet)),
                          !.xmls = Append(@, snippet)],
              idx, bs, limit, Count(snippet))

\* one turn of the for idx in 0..total_chunks loop
ScanStep(acc, idx, bs, limit, header_xml, body_xmls) ==
    ScanKeep(acc, idx, bs, limit, render_chunk_snippet(header_xml, body_xmls, idx))

RECURSIVE ScanLoop(_, _, _, _, _, _)
ScanLoop(acc, idx, bs, limit, header_xml, body_xmls) ==
    IF idx > Len(bs) \/ acc.split # 0 THEN acc
    ELSE ScanLoop(ScanStep(acc, idx, bs, limit, header_xml, body_xmls),
                  idx + 1, bs, limit, header_xml, body_xmls)

\* the body of the inner loop up to the decision: split = 0 stands for None,
\* otherwise the chunk index (body_idx + 1) of the body to split
Scan(bs, fmetas, limit, esc, g, t, hdr_over) ==
    ScanLoop([split |-> 0, oversize_single |-> <<>>, required |-> -1,
              max_over |-> 0, has_unavoidable |-> FALSE,
              header_oversize |-> hdr_over, tokens |-> <<>>, xmls |-> <<>>,
              wrapper_floor |-> WrapperFloor(limit, Len(bs) + 1)],
             0, bs, limit, HeaderXml(Len(bs) + 1, limit, fmetas, esc, g, t),
             [i \in 1..Len(bs) |-> BodyXml(bs[i])])

\* faulty variant: the body keeps the tokens of the block it lost
PopLast_keep(body) ==
    [blocks |-> SubSeq(body.blocks, 1, Len(body.blocks) - 1),
     tokens |-> body.tokens]

\* lines 290-304: pop the last block of the body and insert it as a new body
PopLast(body) ==
    [blocks |-> SubSeq(body.blocks, 1, Len(body.blocks) - 1),
     tokens |-> SatSub(body.tokens, body.blocks[Len(body.blocks)].tokens)]

SingleBody(block) == [blocks |-> <<block>>, tokens |-> block.tokens]

\* faulty variant: the block popped becomes a body before the one it came from
DetachLast_before(bs, k) ==
    SubSeq(bs, 1, k - 1)
    \o <<SingleBody(bs[k].blocks[Len(bs[k].blocks)]), PopLast(bs[k])>>
    \o SubSeq(bs, k + 1, Len(bs))

DetachLast(bs, k) ==
    SubSeq(bs, 1, k - 1)
    \o <<PopLast(bs[k]), SingleBody(bs[k].blocks[Len(bs[k].blocks)])>>
    \o SubSeq(bs, k + 1, Len(bs))

\* faulty variant: the second rule keeps the effective limit at or above itself
NextLimit_stuck(sc, eff) ==
    IF sc.required # -1 /\ sc.required > 0 /\ sc.required < eff
    THEN sc.required
    ELSE IF sc.max_over > 0 /\ ~sc.has_unavoidable /\ eff > sc.wrapper_floor + 1
    THEN Max2(eff, sc.wrapper_floor)
    ELSE -1

\* faulty variant: the first rule takes the required limit as it is
NextLimit_exact(sc, eff) ==
    IF sc.required # -1 /\ sc.required > 0 /\ sc.required < eff
    THEN sc.required
    ELSE IF sc.max_over > 0 /\ ~sc.has_unavoidable /\ eff > sc.wrapper_floor + 1
    THEN Max2(SatSub(eff, 1), sc.wrapper_floor)
    ELSE -1

\* faulty variant: the first rule does not keep the adjusted limit at 1 or above
NextLimit_zero(sc, eff) ==
    IF sc.required # -1 /\ sc.required > 0 /\ sc.required < eff
    THEN SatSub(sc.required, 2)
    ELSE IF sc.max_over > 0 /\ ~sc.has_unavoidable /\ eff > sc.wrapper_floor + 1
    THEN Max2(SatSub(eff, 1), sc.wrapper_floor)
    ELSE -1

\* faulty variant: no rule shrinks the limit, every pass stands
NextLimit_keep(sc, eff) == -1

\* lines 312-330: the effective limit of the next pass, or -1 when the pass stands
NextLimit(sc, eff) ==
    IF sc.required # -1 /\ sc.required > 0 /\ sc.required < eff
    THEN IF Max2(SatSub(sc.required, 2), 1) < eff
         THEN Max2(SatSub(sc.required, 2), 1)
         ELSE sc.required
    ELSE IF sc.max_over > 0 /\ ~sc.has_unavoidable /\ eff > sc.wrapper_floor + 1
    THEN Max2(SatSub(eff, 1), sc.wrapper_floor)
    ELSE -1

RenderedOf(sc) == [i \in 1..Len(sc.xmls) |-> [xml |-> sc.xmls[i], tokens |-> sc.tokens[i]]]

-----------------------------------------------------------------------------
(* tokenizer.rs *)

DEFAULT_MODEL == "gpt-5.2"

\* the model names a caller or the environment may give
ModelNames == {"gpt-4", "GPT-4", "gpt-5.2", "my-model"}

\* lower-cases the name (and maps the Unicode dashes to '-')
normalize_model_name(model) == IF model = "GPT-4" THEN "gpt-4" ELSE model

\* the encoding tiktoken gives the model, o200k_base when it does not know it
bpe_for_model(model) ==
    IF normalize_model_name(model) = "gpt-4" THEN "cl100k_base" ELSE "o200k_base"

\* the model the closure of count() reads
CountModel(env) == IF env # "unset" THEN env ELSE DEFAULT_MODEL

\* count, lines 34-37: the tokenizer a call of count leaves in TOK
Installed(tok, env) == IF tok = "unset" THEN bpe_for_model(CountModel(env)) ELSE tok

\* lines 46-49 of init: the argument, else the environment, else the default
InitModel(arg, env) ==
    IF arg # "none" THEN normalize_model_name(arg)
    ELSE IF env # "unset" THEN env
    ELSE DEFAULT_MODEL

-----------------------------------------------------------------------------
(* Inputs *)

WordLine(k) == [i \in 1..k |-> "w"]

\* the lines a file is made of: empty, one word, three tokens of which one to escape
LineKinds == {WordLine(0), WordLine(1), <<"w", "<", "w">>}

\* the lines ls joined by newlines
JoinNL(ls) ==
    LET RECURSIVE Over(_, _)
        Over(lo, hi) ==
            IF lo = hi THEN ls[lo]
            ELSE Over(lo, (lo + hi) \div 2) \o <<NL>> \o Over((lo + hi) \div 2 + 1, hi)
    IN Over(1, Len(ls))

\* a file of up to MaxLines lines of any kind
MixedContents ==
    {JoinNL(ls) : ls \in UNION {[1..n -> LineKinds] : n \in 1..MaxLines}}

\* a file of many one-word lines
LongContents == {JoinNL([i \in 1..n |-> WordLine(1)]) : n \in (MaxLines + 1)..MaxLongLines}

\* a file of a few one-word lines, to stand after a small file
MidContents == {JoinNL([i \in 1..n |-> WordLine(1)]) : n \in (MaxLines + 1)..MaxMidLines}

\* the contents of the files of a list of several files
SmallContents == {WordLine(0), WordLine(1), <<"w", "<", "w">>, JoinNL(<<WordLine(1), WordLine(1)>>)}

PathOf(i) == IF i = 1 THEN <<"a.rs">> ELSE <<"src", ToString(i)>>

FileAt(i, contents) ==
    [folder |-> FolderDisplay(PathOf(i)), path |-> PathOf(i), contents |-> contents]

FileLists ==
    {<<>>}
    \cup {<<FileAt(1, c)>> : c \in MixedContents \cup LongContents}
    \cup {[i \in 1..Len(cs) |-> FileAt(i, cs[i])] :
            cs \in UNION {[1..n -> SmallContents] : n \in 2..MaxFiles}}
    \cup {<<FileAt(1, c), FileAt(2, d)>> : c \in SmallContents, d \in MidContents}

Limits == 0..MaxLimit

GitStates == {"off", "unavailable", "repo", "clean", "nodiff", "nohead", "nohead_nodiff",
              "busy"}

\* the git states the packing runs start from: every branch of GitInfoXml and
\* of DiffXml is taken by one of them
PackGitStates == {"off", "repo", "nodiff", "nohead"}

-----------------------------------------------------------------------------
(* State *)

NoScan == [split |-> 0, oversize_single |-> <<>>, required |-> -1, max_over |-> 0,
           has_unavoidable |-> FALSE, header_oversize |-> FALSE, tokens |-> <<>>,
           xmls |-> <<>>, wrapper_floor |-> 0]

Threads == 1..MaxThreads

NoCall == [op |-> "none", arg |-> "none", res |-> "none", tok |-> "none"]

\* no tokenizer call is being made
TokIdle ==
    /\ TOK = "unset"
    /\ env_model = "unset"
    /\ tpc = [t \in Threads |-> "idle"]
    /\ targ = [t \in Threads |-> "none"]
    /\ tret = [t \in Threads |-> NoCall]

TokInit ==
    /\ TOK = "unset"
    /\ env_model \in {"unset"} \cup ModelNames
    /\ tpc = [t \in Threads |-> "idle"]
    /\ targ = [t \in Threads |-> "none"]
    /\ tret = [t \in Threads |-> NoCall]

\* the process has counted tokens: its first count installed the tokenizer
TokCounted ==
    /\ TOK = Installed("unset", "unset")
    /\ env_model = "unset"
    /\ tpc = [t \in Threads |-> "idle"]
    /\ targ = [t \in Threads |-> "none"]
    /\ tret = [t \in Threads |-> NoCall]

\* gather::count_tokens is tokenizer::count: an operation that counts tokens
\* (when counts holds) leaves the tokenizer installed
CountsTokens(counts) ==
    /\ TOK' = IF counts THEN Installed(TOK, env_model) ELSE TOK
    /\ UNCHANGED <<env_model, tpc, targ, tret>>

PackStart ==
    /\ now = 0
    /\ pc = "idle"
    /\ effective_limit = 0
    /\ attempt = 0
    /\ bodies = <<>>
    /\ metas = <<>>
    /\ max_blocks = 0
    /\ splits = 0
    /\ header_oversize = FALSE
    /\ scan = NoScan
    /\ chunks = <<>>
    /\ rendered_chunks = <<>>
    /\ result = "none"
    /\ warnings = {}
    /\ runs = 0
    /\ first_run = <<>>

PackInit ==
    /\ files \in FileLists
    /\ chunk_limit \in Limits
    /\ escape_xml \in BOOLEAN
    /\ git \in PackGitStates
    /\ PackStart

\* no file has been gathered
PackIdle ==
    /\ files = <<>>
    /\ chunk_limit = 0
    /\ escape_xml = FALSE
    /\ git = "off"
    /\ PackStart

NoCallMade == [op |-> "none"]

\* A panic hook is the sequence of closures a panic goes through, outermost first.
\* what running the hook does: the wrapper cleans the terminal up and calls the
\* hook it captured, a forwarder only calls the hook it captured
RECURSIVE RunHook(_)
RunHook(hook) ==
    IF Len(hook) = 1 THEN hook
    ELSE IF Head(hook) = "wrapper" THEN <<"cleanup">> \o RunHook(Tail(hook))
    ELSE RunHook(Tail(hook))

\* the default hook of the runtime, and the options of a plain command line
DefaultCli == [interactive |-> FALSE, no_clipboard |-> FALSE, stdout |-> FALSE,
               chunk_index |-> <<>>, escape_xml |-> FALSE]

\* nothing has run outside the chunker
UiIdle ==
    /\ candidate_files = <<>>
    /\ call = NoCallMade
    /\ ret = NoCallMade
    /\ cli = DefaultCli
    /\ mpc = "idle"
    /\ printed = <<>>
    /\ clipboard = <<>>
    /\ exit_code = -1
    /\ stream_idx = 0
    /\ panic_hook = <<"default">>
    /\ hook_guard = <<>>
    /\ hook_ran = <<>>

Init == PackInit /\ TokIdle /\ UiIdle

-----------------------------------------------------------------------------
(* Pipeline::build_chunks_with_header, step by step *)

loopVars == <<effective_limit, attempt, bodies, metas, max_blocks, splits, header_oversize,
              scan>>
inputVars == <<files, chunk_limit, escape_xml, git>>

\* line 216: the call enters the function
Call ==
    /\ pc \in {"idle", "done"}
    /\ runs < MaxRuns
    /\ pc' = "pack"
    /\ effective_limit' = chunk_limit
    /\ attempt' = 0
    /\ result' = "none"
    /\ warnings' = {}
    /\ UNCHANGED <<inputVars, now, bodies, metas, max_blocks, splits, header_oversize,
                   scan, chunks, rendered_chunks, runs, first_run, tokVars, uiVars>>

\* faulty variant: the bodies of the pass are appended to those already there
Pack_append ==
    /\ pc = "pack"
    /\ \E r \in {build_chunk_bodies(files, effective_limit, escape_xml)} :
           /\ bodies' = bodies \o r.bodies
           /\ metas' = r.metas
           /\ max_blocks' = SumSeq([i \in 1..Len(bodies') |-> Len(bodies'[i].blocks)])
           /\ warnings' = warnings \cup (IF r.warn THEN {"oversize part"} ELSE {})
    /\ splits' = 0
    /\ header_oversize' = FALSE
    /\ pc' = "loop"
    /\ CountsTokens(files # <<>>)
    /\ UNCHANGED <<inputVars, now, effective_limit, attempt, scan, chunks,
                   rendered_chunks, result, runs, first_run, uiVars>>

\* faulty variant: the bound on detach operations counts bodies, the first left out
Pack_bodies ==
    /\ pc = "pack"
    /\ \E r \in {build_chunk_bodies(files, effective_limit, escape_xml)} :
           /\ bodies' = r.bodies
           /\ metas' = r.metas
           /\ max_blocks' = SatSub(Len(r.bodies), 1)
           /\ warnings' = warnings \cup (IF r.warn THEN {"oversize part"} ELSE {})
    /\ splits' = 0
    /\ header_oversize' = FALSE
    /\ pc' = "loop"
    /\ CountsTokens(files # <<>>)
    /\ UNCHANGED <<inputVars, now, effective_limit, attempt, scan, chunks,
                   rendered_chunks, result, runs, first_run, uiVars>>

\* lines 217-222: one turn of the outer for loop packs at the effective limit
Pack ==
    /\ pc = "pack"
    /\ \E r \in {build_chunk_bodies(files, effective_limit, escape_xml)} :
           /\ bodies' = r.bodies
           /\ metas' = r.metas
           /\ max_blocks' = SumSeq([i \in 1..Len(r.bodies) |-> Len(r.bodies[i].blocks)])
           /\ warnings' = warnings \cup (IF r.warn THEN {"oversize part"} ELSE {})
    /\ splits' = 0
    /\ header_oversize' = FALSE
    /\ pc' = "loop"
    /\ CountsTokens(files # <<>>)
    /\ UNCHANGED <<inputVars, now, effective_limit, attempt, scan, chunks,
                   rendered_chunks, result, runs, first_run, uiVars>>

\* lines 223-288: one turn of the inner loop renders and measures every chunk
Measure ==
    /\ pc = "loop"
    /\ scan' = Scan(bodies, metas, chunk_limit, escape_xml, git, now, header_oversize)
    /\ header_oversize' = scan'.header_oversize
    /\ pc' = "decide"
    /\ CountsTokens(TRUE)
    /\ UNCHANGED <<inputVars, now, effective_limit, attempt, bodies, metas, max_blocks,
                   splits, chunks, rendered_chunks, result, warnings, runs, first_run,
                   uiVars>>

\* lines 290-310: an oversize body of several blocks loses its last block
Detach ==
    /\ pc = "decide"
    /\ scan.split # 0
    /\ bodies' = DetachLast(bodies, scan.split)
    /\ splits' = splits + 1
    /\ IF splits' > max_blocks
       THEN pc' = "done" /\ result' = "err" /\ runs' = runs + 1
       ELSE pc' = "loop" /\ UNCHANGED <<result, runs>>
    /\ UNCHANGED <<inputVars, now, effective_limit, attempt, metas, max_blocks,
                   header_oversize, scan, chunks, rendered_chunks, warnings, first_run,
                   tokVars, uiVars>>

\* lines 312-330 and 352-354: the pass ends with a smaller effective limit
Shrink ==
    /\ pc = "decide"
    /\ scan.split = 0
    /\ NextLimit(scan, effective_limit) # -1
    /\ effective_limit' = NextLimit(scan, effective_limit)
    /\ IF attempt = MaxPasses - 1
       THEN pc' = "done" /\ result' = "err" /\ runs' = runs + 1 /\ UNCHANGED attempt
       ELSE pc' = "pack" /\ attempt' = attempt + 1 /\ UNCHANGED <<result, runs>>
    /\ UNCHANGED <<inputVars, now, bodies, metas, max_blocks, splits, header_oversize,
                   scan, chunks, rendered_chunks, warnings, first_run, tokVars, uiVars>>

\* lines 332-350: the pass stands; warn and store the rendered chunks
Return ==
    /\ pc = "decide"
    /\ scan.split = 0
    /\ NextLimit(scan, effective_limit) = -1
    /\ warnings' = warnings
         \cup (IF header_oversize THEN {"header exceeds chunk size"} ELSE {})
         \cup (IF scan.oversize_single # <<>> THEN {"chunks exceed chunk size"} ELSE {})
    /\ rendered_chunks' = RenderedOf(scan)
    /\ first_run' = IF runs = 0 THEN RenderedOf(scan) ELSE first_run
    /\ pc' = "done"
    /\ result' = "ok"
    /\ runs' = runs + 1
    /\ UNCHANGED <<inputVars, now, loopVars, chunks, tokVars, uiVars>>

\* a second of wall-clock time passes; the clock is read by make_header only, so a
\* second that passes anywhere else is seen as one that passes before the next read
Tick ==
    /\ pc = "loop"
    /\ now < MaxClock
    /\ now' = now + 1
    /\ UNCHANGED <<inputVars, pc, loopVars, chunks, rendered_chunks, result, warnings,
                   runs, first_run, tokVars, uiVars>>

\* lines 195-201: the first call on a fresh pipeline
CallFirst == pc = "idle" /\ Call

\* a further call on the same pipeline and the same inputs
CallAgain == pc = "done" /\ Call

Next == CallFirst \/ Pack \/ Measure \/ Detach \/ Shrink \/ Return

Spec == Init /\ [][Next]_vars

-----------------------------------------------------------------------------
(* Repeated runs under a running clock *)

RerunInit ==
    /\ files \in {fs \in FileLists : Len(fs) # 1}
    /\ chunk_limit \in Limits
    /\ escape_xml \in BOOLEAN
    /\ git = "off"
    /\ PackStart
    /\ TokIdle
    /\ UiIdle

RerunNext == Next \/ CallAgain \/ Tick

SpecRerun == RerunInit /\ [][RerunNext]_vars

-----------------------------------------------------------------------------
(* The chunker called directly: build_chunk_bodies and build_chunks *)

packIdle == <<inputVars, now, effective_limit, attempt, max_blocks, splits,
              header_oversize, scan, rendered_chunks, result, runs, first_run, uiVars>>

CallBuildChunkBodies ==
    /\ pc = "idle"
    /\ \E r \in {build_chunk_bodies(files, chunk_limit, escape_xml)} :
           /\ bodies' = r.bodies
           /\ metas' = r.metas
           /\ warnings' = IF r.warn THEN {"oversize part"} ELSE {}
    /\ pc' = "bodies"
    /\ CountsTokens(files # <<>>)
    /\ UNCHANGED <<packIdle, chunks>>

CallBuildChunks ==
    /\ pc = "idle"
    /\ \E r \in {build_chunks(files, chunk_limit, escape_xml)} :
           /\ chunks' = r.chunks
           /\ metas' = r.metas
           /\ warnings' = IF r.warn THEN {"oversize part"} ELSE {}
    /\ pc' = "chunks"
    /\ CountsTokens(files # <<>>)
    /\ UNCHANGED <<packIdle, bodies>>

PackNext == CallBuildChunkBodies \/ CallBuildChunks

SpecPack == Init /\ [][PackNext]_vars

-----------------------------------------------------------------------------
(* The chunker on files long enough for a part index of four digits *)

MaxWideLines == 1000

\* one-word lines, as many as it takes for a part index or a part total to reach
\* 1000, one line fewer, and twice as many
WideContents ==
    {JoinNL([i \in 1..n |-> WordLine(1)]) :
        n \in {MaxWideLines - 1, MaxWideLines, 2 * MaxWideLines}}

WideLists == {<<FileAt(1, c)>> : c \in WideContents}

\* the limits from the one a one-word line fills exactly as part 1/1 to the one
\* it fills under a part attribute of two tokens more
WideLimits ==
    PartTokens(PathOf(1), 1, 1, WordLine(1) \o <<NL>>, FALSE)
        .. (PartTokens(PathOf(1), 1, 1, WordLine(1) \o <<NL>>, FALSE) + 2)

WideInit ==
    /\ \/ files \in FileLists /\ chunk_limit \in Limits /\ escape_xml \in BOOLEAN
       \/ files \in WideLists /\ chunk_limit \in WideLimits /\ escape_xml = FALSE
    /\ git = "off"
    /\ PackStart
    /\ TokIdle
    /\ UiIdle

SpecWide == WideInit /\ [][PackNext]_vars

-----------------------------------------------------------------------------
(* Reading the output back *)

TagEnd == "\">\n"
PartTag == "\" part=\""

\* the path attribute of a file-contents block
BlockPath(xml) == SubSeq(xml, 3, FirstIndex(xml, "\" name=\"") - 1)

\* the text between the opening and the closing tag of a file-contents block
BlockBody(xml) == SubSeq(xml, FirstIndex(xml, TagEnd) + 1, Len(xml) - 1)

\* the value of the part attribute of a block that has one
PartAttr(xml) == SubSeq(xml, FirstIndex(xml, PartTag) + 1, FirstIndex(xml, TagEnd) - 1)

\* the number of lines a block holds
LinesIn(xml) == Cardinality({i \in 1..Len(BlockBody(xml)) : BlockBody(xml)[i] = NL})

\* every block of the bodies, in chunk order and block order
AllBlocks(bs) == Flatten([i \in 1..Len(bs) |-> bs[i].blocks])

IsBlockOf(block, file, esc) == BlockPath(block.xml) = maybe_escape_attr(PathStr(file.path), esc)

RECURSIVE BlocksOfFile(_, _, _)
BlocksOfFile(blocks, file, esc) ==
    IF blocks = <<>> THEN <<>>
    ELSE (IF IsBlockOf(Head(blocks), file, esc) THEN <<Head(blocks)>> ELSE <<>>)
         \o BlocksOfFile(Tail(blocks), file, esc)

\* the blocks of one file in the order they are emitted
FileBlocksIn(bs, file, esc) == BlocksOfFile(AllBlocks(bs), file, esc)

BodiesOf(blocks) == Flatten([i \in 1..Len(blocks) |-> BlockBody(blocks[i].xml)])

TokensOf(blocks) == SumSeq([i \in 1..Len(blocks) |-> blocks[i].tokens])

\* the text of a file as it is written out
Written(file, esc) == maybe_escape_text(file.contents, esc)

-----------------------------------------------------------------------------
(* Claims about the chunker (SpecPack) *)

\* C1. Reassembly: for a positive max_tokens, the block bodies of build_chunk_bodies
\* read in chunk order and block order give, for every file, the text of the file
\* line by line (every line ended by a newline): nothing dropped, repeated or moved,
\* whether the file is kept whole or split.
C1_Reassembly ==
    (pc = "bodies" /\ chunk_limit > 0) =>
        \A i \in 1..Len(files) :
            BodiesOf(FileBlocksIn(bodies, files[i], escape_xml))
                = Written(files[i], escape_xml) \o <<NL>>

\* a file split into three parts or more that lie in several bodies
C1_Witness ==
    /\ pc = "bodies"
    /\ chunk_limit > 0
    /\ Len(bodies) >= 2
    /\ \E i \in 1..Len(files) :
          /\ metas[i].parts >= 3
          /\ Len(SplitNL(files[i].contents)) > metas[i].parts
          /\ BodiesOf(FileBlocksIn(bodies, files[i], escape_xml))
                = Written(files[i], escape_xml) \o <<NL>>

PartsAgree(blocks, parts) ==
    /\ Len(blocks) = parts
    /\ \A k \in 1..Len(blocks) :
          Contains(blocks[k].xml, PartTag) =>
              PartAttr(blocks[k].xml) = Num(k) \o <<"/">> \o Num(parts)
    /\ Len(blocks) > 1 => \A k \in 1..Len(blocks) : Contains(blocks[k].xml, PartTag)

\* C3. Parts accounting: FileMeta.parts of every file is the number of blocks emitted
\* for the file; every part attribute of the file declares that number as its total,
\* and the part indices are 1..parts in the order of emission.
C3_PartsAccounting ==
    pc = "bodies" =>
        /\ Len(metas) = Len(files)
        /\ \A i \in 1..Len(files) :
              PartsAgree(FileBlocksIn(bodies, files[i], escape_xml), metas[i].parts)

\* two files in one output, one of them split and the other kept whole
C3_Witness ==
    /\ pc = "bodies"
    /\ \E i \in 1..Len(files) :
          /\ metas[i].parts >= 2
          /\ PartsAgree(FileBlocksIn(bodies, files[i], escape_xml), metas[i].parts)
          /\ \E j \in 1..Len(files) : j # i /\ metas[j].parts = 1

WholeFiles(fs, esc) ==
    Flatten([i \in 1..Len(fs) |-> wrap_file(fs[i].path, Written(fs[i], esc), esc)])

\* C4 as stated: with max_tokens = 0 build_chunks returns exactly one chunk for any
\* file list.
C4_Original ==
    (pc = "chunks" /\ chunk_limit = 0) => Len(chunks) = 1

\* C4. Disabled chunking: with max_tokens = 0 build_chunks returns one chunk for a
\* list of one file or more and no chunk for the empty list; the chunk is the whole
\* block of every file in file order, without a part attribute, and every FileMeta
\* has parts = 1.
C4_DisabledChunking ==
    (pc = "chunks" /\ chunk_limit = 0) =>
        /\ Len(chunks) = (IF files = <<>> THEN 0 ELSE 1)
        /\ files # <<>> =>
              /\ chunks[1].xml = WholeFiles(files, escape_xml)
              /\ ~Contains(chunks[1].xml, PartTag)
        /\ Len(metas) = Len(files)
        /\ \A i \in 1..Len(metas) : metas[i].parts = 1

\* several files, one of several lines, in the one chunk
C4_Witness ==
    /\ pc = "chunks"
    /\ chunk_limit = 0
    /\ Len(files) >= 2
    /\ \E i \in 1..Len(files) : Contains(files[i].contents, NL)
    /\ Len(chunks) = 1
    /\ chunks[1].xml = WholeFiles(files, escape_xml)

\* C9 as stated: FileMeta.tokens is the sum of the token counts of the blocks
\* emitted for the file.
C9_Original ==
    pc = "bodies" =>
        \A i \in 1..Len(files) :
            metas[i].tokens = TokensOf(FileBlocksIn(bodies, files[i], escape_xml))

\* C9. FileMeta.tokens is the token count of the text of the file as written out,
\* without any wrapper; the token counts of the blocks of the file add up to more.
C9_MetaTokens ==
    pc = "bodies" =>
        \A i \in 1..Len(files) :
            /\ metas[i].tokens = Count(Written(files[i], escape_xml))
            /\ metas[i].tokens < TokensOf(FileBlocksIn(bodies, files[i], escape_xml))

\* a file that is escaped and split: its text has one token more than its contents
C9_Witness ==
    /\ pc = "bodies"
    /\ escape_xml
    /\ \E i \in 1..Len(files) :
          /\ metas[i].parts >= 2
          /\ Contains(files[i].contents, "<")
          /\ metas[i].tokens = Count(files[i].contents) + 1

\* every line of the file, rendered alone as part idx of total, fits max_tokens
LinesFit(file, idx, total, max_tokens, esc) ==
    LET lines == LinesOf(Written(file, esc))
    IN \A k \in 1..Len(lines) :
           PartTokens(file.path, idx, total, lines[k], esc) <= max_tokens

\* the lines of the file fit as parts under any part attribute the file can get:
\* the index and the total of a part are at most the number of lines, and a number
\* has at least as many tokens as any number below it
SmallLines(file, max_tokens, esc) ==
    LET n == Len(LinesOf(Written(file, esc)))
    IN LinesFit(file, n, n, max_tokens, esc)

\* C13 as stated: when every line of every file, rendered alone as a part (part
\* 1/1), fits max_tokens, every chunk build_chunks returns for max_tokens > 0 has
\* tokens <= max_tokens.
C13_Original ==
    (/\ pc = "chunks"
     /\ chunk_limit > 0
     /\ \A i \in 1..Len(files) : LinesFit(files[i], 1, 1, chunk_limit, escape_xml))
        => \A c \in 1..Len(chunks) : chunks[c].tokens <= chunk_limit

\* C13. Chunk-body budget: when every line of every file, rendered alone as a
\* part whose index and total are the number of lines of its file (the widest
\* part attribute the file can get), fits max_tokens, every chunk build_chunks
\* returns for max_tokens > 0 has tokens <= max_tokens.
C13_BodyBudget ==
    (/\ pc = "chunks"
     /\ chunk_limit > 0
     /\ \A i \in 1..Len(files) : SmallLines(files[i], chunk_limit, escape_xml))
        => \A c \in 1..Len(chunks) :
              chunks[c].tokens <= chunk_limit /\ Count(chunks[c].xml) <= chunk_limit

\* a file of a thousand small lines split into parts of two lines, every chunk
\* filled to the limit, the part total of three digits
C13_Witness ==
    /\ pc = "chunks"
    /\ chunk_limit > 0
    /\ \A i \in 1..Len(files) : SmallLines(files[i], chunk_limit, escape_xml)
    /\ \E i \in 1..Len(files) :
          /\ Len(LinesOf(files[i].contents)) >= MaxWideLines
          /\ metas[i].parts >= 2
          /\ Len(LinesOf(files[i].contents)) > metas[i].parts
    /\ Len(chunks) >= 2
    /\ \E c \in 1..Len(chunks) : chunks[c].tokens = chunk_limit

-----------------------------------------------------------------------------
(* Claims about Pipeline::build_chunks_with_header (Spec) *)

Returned == pc = "done" /\ result = "ok"

\* the body chunk idx is over the limit
OverLimit(idx) == rendered_chunks[idx + 1].tokens > chunk_limit

\* the body chunk idx holds one block of one line
SingleLine(idx) ==
    Len(bodies[idx].blocks) = 1 /\ LinesIn(bodies[idx].blocks[1].xml) = 1

HeaderSnippet == rendered_chunks[1].xml

\* C5. Zero files in chunked mode: with no file and a positive chunk limit
\* build_chunks_with_header stores exactly one rendered chunk, the header with an
\* empty manifest; its snippet ends with </shared-context> and holds neither a
\* <context-chunk id= wrapper nor a <file-contents> block.
C5_ZeroFiles ==
    (pc = "done" /\ files = <<>> /\ chunk_limit > 0) =>
        /\ result = "ok"
        /\ Len(rendered_chunks) = 1
        /\ SubSeq(HeaderSnippet, Len(HeaderSnippet) - 1, Len(HeaderSnippet)) = ClosingMarker
        /\ ~Contains(HeaderSnippet, "<context-chunk")
        /\ ~Contains(HeaderSnippet, "    <file-contents")
        /\ ~Contains(HeaderSnippet, "    <file")
        /\ rendered_chunks[1].tokens = Count(HeaderSnippet)

\* no file and a limit the header fits
C5_Witness ==
    /\ pc = "done"
    /\ files = <<>>
    /\ chunk_limit > 0
    /\ Len(rendered_chunks) = 1
    /\ rendered_chunks[1].tokens <= chunk_limit
    /\ Contains(HeaderSnippet, "  <file-map")

\* a pass ends without a return: the outer loop goes on, or fails at the last pass
PassEnds == pc = "decide" /\ pc' \in {"pack", "done"} /\ result' # "ok"

\* an inner iteration ends without leaving the inner loop
Detaches == pc = "decide" /\ pc' = "loop"

\* where a pass stands: packing, or in its inner loop
Stage == IF pc \in {"idle", "pack"} THEN 0 ELSE 1

\* a step moves the run forward in the order of (attempt, stage, splits, position)
Advances ==
    \/ pc # "done" /\ pc' = "done"
    \/ pc = "idle" /\ pc' = "pack"
    \/ attempt' = attempt + 1 /\ pc' = "pack"
    \/ attempt' = attempt /\ Stage < Stage'
    \/ attempt' = attempt /\ Stage = Stage' /\ splits' = splits + 1
    \/ attempt' = attempt /\ Stage = Stage' /\ splits' = splits
          /\ pc = "loop" /\ pc' = "decide"

\* C10. Termination of the convergence loop: build_chunks_with_header comes to
\* its end on every input: every step moves it forward in a bounded order (at
\* most MaxPasses passes, at most max_blocks detaches in a pass), and at its end
\* it has returned; a pass that does not return strictly shrinks
\* effective_limit; an inner iteration that stays in the pass performs exactly one
\* detach (one body more, the same blocks in the same order).
C10_Termination ==
    /\ [][Advances]_vars
    /\ [](splits <= max_blocks /\ attempt < MaxPasses)
    /\ [](pc = "done" <=> result # "none")
    /\ [][PassEnds /\ scan.split = 0 => effective_limit' < effective_limit]_vars
    /\ [][Detaches => /\ splits' = splits + 1
                      /\ Len(bodies') = Len(bodies) + 1
                      /\ AllBlocks(bodies') = AllBlocks(bodies)]_vars

\* a run that shrank the effective limit and ended in its second pass, with
\* several bodies
C10_Witness ==
    /\ pc = "done"
    /\ attempt >= 1
    /\ effective_limit < chunk_limit
    /\ Len(bodies) >= 2
    /\ splits <= max_blocks

StartsWith(s, t) == Len(s) >= Len(t) /\ SubSeq(s, 1, Len(t)) = t

EndsWith(s, t) == Len(s) >= Len(t) /\ SubSeq(s, Len(s) - Len(t) + 1, Len(s)) = t

\* the value of the total-chunks attribute of a header snippet
TotalChunksOf(xml) ==
    SubSeq(xml, FirstIndex(xml, " total-chunks=\"") + 1,
           FirstIndex(xml, "\" chunk-size=\"") - 1)

\* C11. Marker consistency: in the N rendered chunks build_chunks_with_header
\* stores, the header advertises total-chunks = N (every measured header is built
\* for the chunk count of its iteration), body chunk i opens with id i/N, every
\* chunk but the last ends with more remaining = N - 1 - i and holds no closing
\* tag, and the last chunk, and only it, ends with </shared-context>.
C11_MarkerConsistency ==
    /\ pc = "decide" => TotalChunksOf(scan.xmls[1]) = Num(Len(bodies) + 1)
    /\ Returned =>
          /\ Len(rendered_chunks) = Len(bodies) + 1
          /\ TotalChunksOf(HeaderSnippet) = Num(Len(rendered_chunks))
          /\ \A i \in 1..(Len(rendered_chunks) - 1) :
                StartsWith(rendered_chunks[i + 1].xml,
                           <<"<context-chunk", " id=\"">> \o Num(i) \o <<"/">>
                           \o Num(Len(rendered_chunks)) \o <<"\">\n">>)
          /\ \A i \in 0..(Len(rendered_chunks) - 2) :
                /\ EndsWith(rendered_chunks[i + 1].xml,
                            <<"<more", " remaining=\"">>
                            \o Num(Len(rendered_chunks) - 1 - i) \o <<"\"/>\n">>)
                /\ ~Contains(rendered_chunks[i + 1].xml, "</shared-context")
          /\ EndsWith(rendered_chunks[Len(rendered_chunks)].xml, <<"</shared-context", ">\n">>)
          /\ ~Contains(rendered_chunks[Len(rendered_chunks)].xml, "<more")

\* a run that detached a block, so that the chunk count changed within the pass, and
\* returned a header and two body chunks
C11_Witness ==
    /\ Returned
    /\ splits >= 1
    /\ Len(rendered_chunks) >= 3
    /\ TotalChunksOf(HeaderSnippet) = Num(Len(rendered_chunks))
    /\ EndsWith(rendered_chunks[Len(rendered_chunks)].xml, <<"</shared-context", ">\n">>)

\* the positions of the token t in xml from position i on, in increasing order
RECURSIVE IndicesOf(_, _, _)
IndicesOf(xml, t, i) ==
    IF i > Len(xml) THEN <<>>
    ELSE (IF xml[i] = t THEN <<i>> ELSE <<>>) \o IndicesOf(xml, t, i + 1)

\* where the manifest rows of a header snippet start
RowStarts(xml) == IndicesOf(xml, "    <file", 1)

\* the snippet from position i to its end
From(xml, i) == SubSeq(xml, i, Len(xml))

\* C12. Manifest completeness: the header chunk build_chunks_with_header stores has
\* one manifest row per input file, with ids 0..n-1 and the paths in file order, and
\* total-files = n, for every limit (0 included); when the header snippet counts
\* more tokens than a positive limit the header warning is logged, and the rows are
\* all there all the same.
C12_ManifestComplete ==
    Returned =>
        /\ Len(RowStarts(HeaderSnippet)) = Len(files)
        /\ StartsWith(From(HeaderSnippet, FirstIndex(HeaderSnippet, " total-files=\"")),
                      <<" total-files=\"">> \o Num(Len(files)) \o <<"\">\n">>)
        /\ \A k \in 1..Len(files) :
              StartsWith(From(HeaderSnippet, RowStarts(HeaderSnippet)[k]),
                         <<"    <file", " id=\"">> \o Num(k - 1) \o <<"\" path=\"">>
                         \o maybe_escape_attr(PathStr(files[k].path), escape_xml)
                         \o <<"\" tokens=\"">>)
        /\ (chunk_limit > 0 /\ rendered_chunks[1].tokens > chunk_limit)
              => "header exceeds chunk size" \in warnings

\* two files under a limit the header does not fit: the warning and both rows
C12_Witness ==
    /\ Returned
    /\ Len(files) >= 2
    /\ chunk_limit > 0
    /\ rendered_chunks[1].tokens > chunk_limit
    /\ "header exceeds chunk size" \in warnings
    /\ Len(RowStarts(HeaderSnippet)) = Len(files)

-----------------------------------------------------------------------------
(* tokenizer.rs: count and init called from several threads *)

\* faulty variant: count() encodes with the tokenizer of its own model
TokCount_fresh(t) ==
    /\ tpc[t] = "idle"
    /\ TOK' = IF TOK = "unset" THEN bpe_for_model(CountModel(env_model)) ELSE TOK
    /\ tret' = [tret EXCEPT ![t] = [op |-> "count", arg |-> "none", res |-> "ok",
                                    tok |-> bpe_for_model(CountModel(env_model))]]
    /\ UNCHANGED <<env_model, tpc, targ, packVars, uiVars>>

\* count(): TOK.get_or_init(...) installs at most once, atomically
TokCount(t) ==
    /\ tpc[t] = "idle"
    /\ TOK' = IF TOK = "unset" THEN bpe_for_model(CountModel(env_model)) ELSE TOK
    /\ tret' = [tret EXCEPT ![t] = [op |-> "count", arg |-> "none", res |-> "ok",
                                    tok |-> TOK']]
    /\ UNCHANGED <<env_model, tpc, targ, packVars, uiVars>>

\* init(model), lines 43-49: return Ok when a tokenizer is installed, else resolve
TokInitEnter(t, arg) ==
    /\ tpc[t] = "idle"
    /\ IF TOK # "unset"
       THEN /\ tret' = [tret EXCEPT ![t] = [op |-> "init", arg |-> arg, res |-> "ok",
                                            tok |-> TOK]]
            /\ UNCHANGED <<tpc, targ>>
       ELSE /\ tpc' = [tpc EXCEPT ![t] = "set"]
            /\ targ' = [targ EXCEPT ![t] = InitModel(arg, env_model)]
            /\ tret' = [tret EXCEPT ![t] = [op |-> "init", arg |-> arg, res |-> "none",
                                            tok |-> "none"]]
    /\ UNCHANGED <<TOK, env_model, packVars, uiVars>>

\* faulty variant: the tokenizer is stored over the one installed
TokInitSet_overwrite(t) ==
    /\ tpc[t] = "set"
    /\ TOK' = bpe_for_model(targ[t])
    /\ tret' = [tret EXCEPT ![t] = [@ EXCEPT !.res = "ok", !.tok = TOK']]
    /\ tpc' = [tpc EXCEPT ![t] = "idle"]
    /\ targ' = [targ EXCEPT ![t] = "none"]
    /\ UNCHANGED <<env_model, packVars, uiVars>>

\* init(model), lines 50-52: TOK.set(...) fails when a tokenizer is installed
TokInitSet(t) ==
    /\ tpc[t] = "set"
    /\ TOK' = IF TOK = "unset" THEN bpe_for_model(targ[t]) ELSE TOK
    /\ tret' = [tret EXCEPT ![t] = [@ EXCEPT !.res = IF TOK = "unset" THEN "ok" ELSE "err",
                                             !.tok = TOK']]
    /\ tpc' = [tpc EXCEPT ![t] = "idle"]
    /\ targ' = [targ EXCEPT ![t] = "none"]
    /\ UNCHANGED <<env_model, packVars, uiVars>>

TokNext ==
    \E t \in Threads :
        \/ TokCount(t)
        \/ \E arg \in {"none"} \cup ModelNames : TokInitEnter(t, arg)
        \/ TokInitSet(t)

TokSpecInit == PackIdle /\ TokInit /\ UiIdle

SpecTok == TokSpecInit /\ [][TokNext]_vars

-----------------------------------------------------------------------------
(* Claims about repeated runs (SpecRerun) *)

StampTag == "\" generated-at=\""

\* the generated-at value of a header snippet
StampOf(xml) == SubSeq(xml, FirstIndex(xml, StampTag) + 1, FirstIndex(xml, TagEnd) - 1)

\* a header snippet without its generated-at value
SansStamp(xml) ==
    SubSeq(xml, 1, FirstIndex(xml, StampTag)) \o SubSeq(xml, FirstIndex(xml, TagEnd), Len(xml))

RanTwice == pc = "done" /\ runs >= 2 /\ result = "ok"

\* C7 as stated: two runs on the same files, limit and configuration store the same
\* rendered chunks, the header chunk included.
C7_Original ==
    RanTwice => rendered_chunks = first_run

\* C7. Determinism: two runs on the same files, limit and configuration store
\* rendered chunk lists of the same length with the same token counts and the same
\* body chunks; the header chunks are the same but for the generated-at value,
\* which is the clock reading of each run, and the lists are the same when the two
\* headers carry the same reading.
C7_Determinism ==
    RanTwice =>
        /\ Len(rendered_chunks) = Len(first_run)
        /\ \A i \in 1..Len(rendered_chunks) :
              rendered_chunks[i].tokens = first_run[i].tokens
        /\ \A i \in 2..Len(rendered_chunks) : rendered_chunks[i].xml = first_run[i].xml
        /\ SansStamp(rendered_chunks[1].xml) = SansStamp(first_run[1].xml)
        /\ StampOf(rendered_chunks[1].xml) = StampOf(first_run[1].xml)
              => rendered_chunks = first_run

\* two runs of several chunks a second apart: the headers differ, the bodies do not
C7_Witness ==
    /\ RanTwice
    /\ Len(rendered_chunks) >= 3
    /\ rendered_chunks[1].xml # first_run[1].xml
    /\ StampOf(rendered_chunks[1].xml) # StampOf(first_run[1].xml)
    /\ \A i \in 2..Len(rendered_chunks) : rendered_chunks[i] = first_run[i]

-----------------------------------------------------------------------------
(* Claims about the tokenizer (SpecTok) *)

\* the encoding the init call recorded for thread t asked for
Asked(t) == bpe_for_model(InitModel(tret[t].arg, env_model))

\* C8 as stated: once a tokenizer is selected, an init() that asks for a different
\* model is rejected with an error.
C8_Original ==
    \A t \in Threads :
        (tret[t].op = "init" /\ tret[t].res = "ok") => Asked(t) = TOK

\* C8. Tokenizer selection is once per process and first use wins: an installed
\* tokenizer never changes; an init() that finds a tokenizer installed returns Ok
\* whatever model it asks for and leaves the tokenizer alone; init() reports an
\* error only when it found none at entry and another thread installed one before
\* its own TOK.set.
C8_FirstUseWins ==
    /\ [][TOK # "unset" => TOK' = TOK]_vars
    /\ [][\A t \in Threads :
            (TOK # "unset" /\ tpc[t] = "idle" /\ tret'[t] # tret[t]) =>
                tret'[t].res = "ok" /\ tret'[t].tok = TOK]_vars
    /\ [][\A t \in Threads :
            (tret'[t] # tret[t] /\ tret'[t].res = "err") =>
                tpc[t] = "set" /\ TOK # "unset" /\ tret'[t].tok = TOK]_vars

\* a tokenizer is installed and an init() that asked for another encoding
\* returned Ok
C8_Witness ==
    /\ TOK # "unset"
    /\ \E t \in Threads :
          /\ tret[t].op = "init"
          /\ tret[t].res = "ok"
          /\ tret[t].tok = TOK
          /\ Asked(t) # TOK

-----------------------------------------------------------------------------
(* pipeline.rs: Pipeline::apply_excludes.  A path or a pattern is the sequence *)
(* of its characters.                                                          *)

\* Pipeline.root: the canonical working directory
Root == <<"/", "r">>

\* the canonical paths build_candidates can find, in sorted order
AllCandidates ==
    << <<"/", "r", "/", "a">>, <<"/", "r", "/", "s", "/", "a">>,
       <<"/", "r", "/", "s", "/", "b">>, <<"/", "t", "/", "a">> >>

\* members of s at the positions of the set keep, in the order of s
RECURSIVE Pick(_, _, _)
Pick(s, keep, i) ==
    IF i > Len(s) THEN <<>>
    ELSE (IF i \in keep THEN <<s[i]>> ELSE <<>>) \o Pick(s, keep, i + 1)

\* candidate_files after build_candidates: sorted, without duplicates
CandidateLists == {Pick(AllCandidates, keep, 1) : keep \in SUBSET (1..Len(AllCandidates))}

\* the patterns --exclude-paths may be given
PatternSet ==
    { <<"[">>, <<"a", "[">>, <<"s", "/", "**">>, <<"s", "\\", "*">>, <<"*", "b">>,
      <<"/", "t", "/", "*">>, <<"a">>, <<"x">> }

MaxPatterns == 2

ExcludeLists == UNION {[1..n -> PatternSet] : n \in 0..MaxPatterns}

\* p.replace('\\', "/")
ReplaceBackslash(p) == [i \in 1..Len(p) |-> IF p[i] = "\\" THEN "/" ELSE p[i]]

\* Glob::new(pattern) is Ok: a character class that is opened is closed
GlobValid(p) == ~Contains(p, "[")

GlobInvalid(p) == ~GlobValid(p)

\* the glob matches the whole of the text; * and ** run over any characters,
\* separators included (literal_separator is off)
RECURSIVE GlobMatch(_, _)
GlobMatch(p, text) ==
    IF p = <<>> THEN text = <<>>
    ELSE IF Head(p) \in {"*", "**"}
    THEN \E k \in 0..Len(text) : GlobMatch(Tail(p), SubSeq(text, k + 1, Len(text)))
    ELSE text # <<>> /\ Head(text) = Head(p) /\ GlobMatch(Tail(p), Tail(text))

\* matcher.is_match(text) for the glob set built from the valid patterns
is_match(globs, text) == \E i \in 1..Len(globs) : GlobMatch(globs[i], text)

\* path.strip_prefix(&self.root), the path itself when it is not under the root
RelOf(path) ==
    IF Len(path) > Len(Root) + 1 /\ SubSeq(path, 1, Len(Root) + 1) = Root \o <<"/">>
    THEN SubSeq(path, Len(Root) + 2, Len(path))
    ELSE path

\* lines 161-169: the closure of retain
Retained(globs, path) == ~is_match(globs, RelOf(path)) /\ ~is_match(globs, path)

RECURSIVE Retain(_, _)
Retain(cands, globs) ==
    IF cands = <<>> THEN <<>>
    ELSE (IF Retained(globs, Head(cands)) THEN <<Head(cands)>> ELSE <<>>)
         \o Retain(Tail(cands), globs)

\* faulty variant: the call fails as soon as one pattern is invalid
ExcludeFails_any(raw_patterns, valid) == valid < Len(raw_patterns)

\* line 151: every pattern given was invalid
ExcludeFails(raw_patterns, valid) == raw_patterns # <<>> /\ valid = 0

\* lines 151-170 once the patterns are parsed
ExcludeOutcome(cands, raw_patterns, globs) ==
    IF ExcludeFails(raw_patterns, Len(globs))
    THEN [res |-> "err", candidates |-> cands]
    ELSE IF Len(globs) = 0 THEN [res |-> "ok", candidates |-> cands]
    ELSE [res |-> "ok", candidates |-> Retain(cands, globs)]

\* apply_excludes: the result, the candidates it leaves and the patterns it warns of
apply_excludes(cands, exclude) ==
    [out |-> ExcludeOutcome(cands, [i \in 1..Len(exclude) |-> ReplaceBackslash(exclude[i])],
                            SelectSeq([i \in 1..Len(exclude) |-> ReplaceBackslash(exclude[i])],
                                      GlobValid)),
     warned |-> SelectSeq([i \in 1..Len(exclude) |-> ReplaceBackslash(exclude[i])],
                          GlobInvalid)]

ExclInit ==
    /\ PackIdle
    /\ TokIdle
    /\ candidate_files \in CandidateLists
    /\ call \in {[op |-> "apply_excludes", exclude |-> e, before |-> <<>>] : e \in ExcludeLists}
    /\ ret = NoCallMade
    /\ cli = DefaultCli
    /\ mpc = "idle"
    /\ printed = <<>>
    /\ clipboard = <<>>
    /\ exit_code = -1
    /\ stream_idx = 0
    /\ panic_hook = <<"default">>
    /\ hook_guard = <<>>
    /\ hook_ran = <<>>

ApplyExcludes ==
    /\ ret.op = "none"
    /\ call.op = "apply_excludes"
    /\ \E r \in {apply_excludes(candidate_files, call.exclude)} :
          /\ candidate_files' = r.out.candidates
          /\ ret' = [op |-> "apply_excludes", res |-> r.out.res, warned |-> r.warned]
    /\ call' = [call EXCEPT !.before = candidate_files]
    /\ UNCHANGED <<packVars, tokVars, cli, mpc, printed, clipboard, exit_code, stream_idx,
                   panic_hook, hook_guard, hook_ran>>

ExclNext == ApplyExcludes

SpecExcl == ExclInit /\ [][ExclNext]_vars

\* the pattern as the matcher sees it is valid and matches the path, relative to
\* the root or absolute
ExcludedBy(pattern, path) ==
    /\ GlobValid(ReplaceBackslash(pattern))
    /\ \/ GlobMatch(ReplaceBackslash(pattern), path)
       \/ GlobMatch(ReplaceBackslash(pattern), RelOf(path))

RECURSIVE Survivors(_, _)
Survivors(cands, exclude) ==
    IF cands = <<>> THEN <<>>
    ELSE (IF \E i \in 1..Len(exclude) : ExcludedBy(exclude[i], Head(cands))
          THEN <<>> ELSE <<Head(cands)>>)
         \o Survivors(Tail(cands), exclude)

-----------------------------------------------------------------------------
(* context/chunker.rs build_file_meta and context/xml.rs build_xml *)

\* build_file_meta: one FileMeta per file, parts = 1, no chunking
build_file_meta(fs, esc) ==
    [i \in 1..Len(fs) |->
        [id |-> i - 1, path |-> fs[i].path,
         tokens |-> Count(maybe_escape_text(fs[i].contents, esc)), parts |-> 1]]

\* folder_display: "." for an empty folder
FolderShown(file) == IF file.folder = <<>> THEN <<".">> ELSE file.folder

FolderOpen(file, esc) ==
    <<"  <folder", " path=\"">> \o maybe_escape_attr(FolderShown(file), esc) \o <<"\">\n">>

FileContentsPlain(file, esc) ==
    <<"    <file-contents", " path=\"">> \o maybe_escape_attr(PathStr(file.path), esc)
    \o <<"\" name=\"">> \o maybe_escape_attr(FileName(file.path), esc) \o <<"\">\n">>
    \o maybe_escape_text(file.contents, esc) \o <<NL, "    </file-contents>\n">>

\* the second loop of build_xml_with_escape; current = <<>> stands for None
RECURSIVE XmlFolders(_, _, _)
XmlFolders(fs, current, esc) ==
    IF fs = <<>> THEN (IF current # <<>> THEN <<"  </folder>\n">> ELSE <<>>)
    ELSE (IF current # FolderShown(Head(fs))
          THEN (IF current # <<>> THEN <<"  </folder>\n">> ELSE <<>>)
               \o FolderOpen(Head(fs), esc)
          ELSE <<>>)
         \o FileContentsPlain(Head(fs), esc)
         \o XmlFolders(Tail(fs), FolderShown(Head(fs)), esc)

build_xml_with_escape(fs, esc) ==
    <<"<shared-context>\n", "  <file-map", " total-files=\"">> \o Num(Len(fs)) \o <<"\">\n">>
    \o FileMap(build_file_meta(fs, esc), esc) \o <<"  </file-map>\n">>
    \o XmlFolders(fs, <<>>, esc) \o <<"</shared-context>\n">>

build_xml(fs) == build_xml_with_escape(fs, FALSE)

-----------------------------------------------------------------------------
(* main.rs: main from the files read (step 6) to the exit of the process *)

MaxIndex == 3
MaxShown == 2

\* the token lists of the files main is run on
MainFileLists ==
    {fs \in FileLists :
        \A i \in 1..Len(fs) : fs[i].contents \in MixedContents \cup SmallContents}

\* --chunk-size: none, half the largest limit, the largest limit
MainLimits == {0, MaxLimit \div 2, MaxLimit}

\* chunk_index is the Option of cli.rs 78-86: <<>> when -k is not given, else <<n>>
CliOptions ==
    [interactive : BOOLEAN, no_clipboard : BOOLEAN, stdout : BOOLEAN,
     chunk_index : {<<>>} \cup {<<n>> : n \in -1..MaxIndex}, escape_xml : {FALSE}]

\* what a line read from stdin can be, trimmed
StdinLines == {"q", "", "x"} \cup {ToString(n) : n \in 0..MaxIndex}

\* cmd.parse::<usize>(): the number, -1 for Err
ParseUsize(cmd) ==
    IF \E n \in 0..MaxIndex : ToString(n) = cmd
    THEN CHOOSE n \in 0..MaxIndex : ToString(n) = cmd
    ELSE -1

\* lines 121-146: the header chunk followed by the renumbered data chunks
MainChunks(r, limit, t) ==
    <<[index |-> 0,
       xml |-> HeaderXml(Len(r.chunks) + 1, limit, r.metas, FALSE, "off", t),
       tokens |-> Count(HeaderXml(Len(r.chunks) + 1, limit, r.metas, FALSE, "off", t))]>>
    \o [i \in 1..Len(r.chunks) |-> [r.chunks[i] EXCEPT !.index = i]]

\* lines 157-174 and 218-235: the snippet of chunk i of main's chunks
MainSnippet(cs, i) ==
    IF i = 0
    THEN cs[1].xml \o (IF Len(cs) - 1 > 0 THEN MoreMarker(Len(cs) - 1) ELSE <<>>)
    ELSE ChunkOpen(i, Len(cs)) \o cs[i + 1].xml \o ChunkClose
         \o (IF Len(cs) - i - 1 > 0 THEN MoreMarker(Len(cs) - i - 1) ELSE ClosingMarker)

\* Config::from_cli, lines 42-46: no -k is Default, -k -1 is None, else the index
chunk_copy(c) ==
    IF c.chunk_index = <<>> THEN <<"Default">>
    ELSE IF c.chunk_index[1] = -1 THEN <<"None">>
    ELSE <<"Index", c.chunk_index[1]>>

\* main reads cli.chunk_index as an isize (lines 202-207): -1 when -k is not given
ChunkIndex(c) == IF c.chunk_index = <<>> THEN -1 ELSE c.chunk_index[1]

\* lines 201-205: the index to copy
CopyIdx(c) == IF ChunkIndex(c) = -1 /\ ~c.no_clipboard THEN 0 ELSE ChunkIndex(c)

\* in the lines main prints, [check], [dot] and [up] stand for the characters
\* U+2714, U+2022 and U+25B2

\* lines 116-121: the summary line of the run without chunking
SummaryWhole(fs, c) ==
    <<"[check] ">> \o Num(Len(fs)) \o <<" files [dot] ">> \o Num(Count(build_xml(fs)))
    \o <<" tokens [dot] 1 chunk [dot] copied=">>
    \o (IF ~c.no_clipboard THEN <<"0">> ELSE <<"none">>) \o <<NL>>

\* lines 248-258: the summary line of the chunked run
SummaryChunks(fs, cs, c) ==
    <<"[check] ">> \o Num(Len(fs)) \o <<" files [dot] ">> \o Num(Count(build_xml(fs)))
    \o <<" tokens [dot] ">> \o Num(Len(cs)) \o <<" chunks [dot] copied=">>
    \o (IF CopyIdx(c) >= 0 THEN Num(CopyIdx(c)) ELSE <<"none">>) \o <<NL>>

\* line 155: the banner of the streaming loop
StreamBanner(total) ==
    <<"[up] Streaming ">> \o Num(total) \o <<" chunks (0..">> \o Num(total - 1)
    \o <<").", NL>>

\* line 179
CopiedLine(idx) == <<"[check] copied chunk ">> \o Num(idx) \o <<NL>>

\* line 184
StreamPrompt(total) ==
    <<"Enter chunk # (0..">> \o Num(total - 1) \o <<") or 'q' to quit: ">>

\* the turns of the streaming loop so far: one prompt is printed in each
Prompted == Cardinality({i \in 1..Len(printed) : printed[i] = StreamPrompt(Len(chunks))})

MainInit ==
    /\ files \in MainFileLists
    /\ chunk_limit \in MainLimits
    /\ escape_xml = FALSE
    /\ git = "off"
    /\ PackStart
    /\ TokIdle
    /\ candidate_files = <<>>
    /\ call = NoCallMade
    /\ ret = NoCallMade
    /\ cli \in CliOptions
    /\ mpc = "main"
    /\ printed = <<>>
    /\ clipboard = <<>>
    /\ exit_code = -1
    /\ stream_idx = 0
    /\ panic_hook = <<"default">>
    /\ hook_guard = <<>>
    /\ hook_ran = <<>>

mainIdle == <<inputVars, now, pc, loopVars, rendered_chunks, result, warnings, runs,
              first_run, candidate_files, call, ret, cli, panic_hook, hook_guard>>

\* lines 100-122: chunking disabled, the whole XML is the output; build_xml and
\* the summary count tokens
MainWhole ==
    /\ mpc = "main"
    /\ chunk_limit = 0
    /\ printed' = (IF cli.stdout \/ cli.interactive
                   THEN <<build_xml(files) \o <<NL>>>> ELSE <<>>)
                  \o <<SummaryWhole(files, cli)>>
    /\ clipboard' = IF ~cli.no_clipboard THEN <<build_xml(files)>> ELSE <<>>
    /\ exit_code' = 0
    /\ mpc' = "exit"
    /\ CountsTokens(TRUE)
    /\ UNCHANGED <<mainIdle, hook_ran, chunks, metas, stream_idx>>

\* lines 124-155: count the whole XML, chunk, prepend the header, choose between
\* streaming, which starts with its banner, and selection
MainChunk ==
    /\ mpc = "main"
    /\ chunk_limit # 0
    /\ \E r \in {build_chunks(files, chunk_limit, FALSE)} :
          /\ chunks' = MainChunks(r, chunk_limit, now)
          /\ metas' = r.metas
          /\ warnings' = IF r.warn THEN {"oversize part"} ELSE {}
          /\ printed' = IF cli.interactive
                        THEN <<StreamBanner(Len(r.chunks) + 1)>> ELSE <<>>
    /\ mpc' = IF cli.interactive THEN "stream" ELSE "select"
    /\ CountsTokens(TRUE)
    /\ UNCHANGED <<inputVars, now, pc, effective_limit, attempt, bodies, max_blocks, splits,
                   header_oversize, scan, rendered_chunks, result, runs, first_run,
                   candidate_files, call, ret, cli, panic_hook, hook_guard, hook_ran,
                   clipboard, exit_code, stream_idx>>

\* lines 156-185: one turn of the streaming loop up to the read of stdin: the
\* snippet is copied and the copy reported, the snippet is printed, the prompt is
\* printed; an idx out of range fails the subtraction or the indexing, and the
\* process panics, which runs the panic hook
StreamShow ==
    /\ mpc = "stream"
    /\ IF stream_idx >= Len(chunks)
       THEN /\ exit_code' = 101
            /\ mpc' = "exit"
            /\ hook_ran' = RunHook(panic_hook)
            /\ UNCHANGED <<printed, clipboard>>
       ELSE /\ clipboard' = IF ~cli.no_clipboard
                            THEN Append(clipboard, MainSnippet(chunks, stream_idx))
                            ELSE clipboard
            /\ printed' = printed
                  \o (IF ~cli.no_clipboard THEN <<CopiedLine(stream_idx)>> ELSE <<>>)
                  \o (IF cli.stdout THEN <<MainSnippet(chunks, stream_idx)>> ELSE <<>>)
                  \o <<StreamPrompt(Len(chunks))>>
            /\ mpc' = "prompt"
            /\ UNCHANGED <<exit_code, hook_ran>>
    /\ UNCHANGED <<mainIdle, tokVars, chunks, metas, stream_idx>>

\* lines 186-198: the command read from stdin
StreamRead(cmd) ==
    /\ mpc = "prompt"
    /\ IF cmd = "q"
       THEN mpc' = "exit" /\ exit_code' = 0 /\ UNCHANGED stream_idx
       ELSE /\ Prompted < MaxShown
            /\ mpc' = "stream"
            /\ stream_idx' = IF cmd = "" THEN (stream_idx + 1) % Len(chunks)
                             ELSE IF ParseUsize(cmd) # -1 THEN ParseUsize(cmd)
                             ELSE stream_idx
            /\ UNCHANGED exit_code
    /\ UNCHANGED <<mainIdle, hook_ran, tokVars, chunks, metas, printed, clipboard>>

\* lines 201-214: the checks on the chunk index
MainSelect ==
    /\ mpc = "select"
    /\ IF ChunkIndex(cli) >= 0 /\ chunk_limit = 0
       THEN exit_code' = 2 /\ mpc' = "exit"
       ELSE IF CopyIdx(cli) >= Len(chunks)
       THEN exit_code' = 3 /\ mpc' = "exit"
       ELSE mpc' = "emit" /\ UNCHANGED exit_code
    /\ UNCHANGED <<mainIdle, hook_ran, tokVars, chunks, metas, printed, clipboard, stream_idx>>

\* lines 219-258: print every chunk, copy the selected one, print the summary
MainEmit ==
    /\ mpc = "emit"
    /\ printed' = (IF cli.stdout
                   THEN [i \in 1..Len(chunks) |-> MainSnippet(chunks, i - 1)]
                   ELSE <<>>)
                  \o <<SummaryChunks(files, chunks, cli)>>
    /\ clipboard' = IF CopyIdx(cli) >= 0 /\ ~cli.no_clipboard
                    THEN <<MainSnippet(chunks, CopyIdx(cli))>>
                    ELSE <<>>
    /\ exit_code' = 0
    /\ mpc' = "exit"
    /\ UNCHANGED <<mainIdle, hook_ran, tokVars, chunks, metas, stream_idx>>

MainNext ==
    \/ MainWhole
    \/ MainChunk
    \/ StreamShow
    \/ \E cmd \in StdinLines : StreamRead(cmd)
    \/ MainSelect
    \/ MainEmit

SpecMain == MainInit /\ [][MainNext]_vars

\* main has chunked: the chunks, the header included, are known
Chunked == mpc # "main" /\ chunk_limit # 0

\* the entries of printed that are the snippet of a chunk
SnippetsPrinted ==
    {i \in 1..Len(printed) :
        \E k \in 0..(Len(chunks) - 1) : printed[i] = MainSnippet(chunks, k)}

\* C15. Chunk index out of range: when the chunk index asked for is >= the
\* number of chunks (the header included), no chunk snippet is printed to stdout
\* or copied to the clipboard, and the process exits with code 3.
C15_OutOfRange ==
    (Chunked /\ ChunkIndex(cli) >= Len(chunks)) =>
        /\ SnippetsPrinted = {}
        /\ clipboard = <<>>
        /\ mpc = "exit" => exit_code = 3

\* an index out of range under --interactive: chunk 0 is copied and printed, and
\* the process exits with code 0 when the user quits
C15_Failure ==
    /\ Chunked
    /\ ChunkIndex(cli) >= Len(chunks)
    /\ cli.interactive
    /\ clipboard # <<>>
    /\ SnippetsPrinted # {}
    /\ mpc = "exit"
    /\ exit_code = 0

-----------------------------------------------------------------------------
(* pipeline.rs build_chunks_with_header with multi_step, and ui/stream.rs     *)
(* multi_step_mode                                                             *)

\* lines 202-214 of pipeline.rs: the header is the only rendered chunk
MultiStepHeader(fs, limit, esc, g, t) ==
    <<"<shared-context>\n">>
    \o make_header(1, limit, build_file_meta(fs, esc), TRUE, esc, g, t) \o <<NL>>

\* what a line read from stdin can be, trimmed, as the sequence of its tokens
RequestLines ==
    { <<"q">>, <<"Q">>, <<>>, <<"x">>, <<"[">>, <<"*">>, <<"a.rs">>, <<"src", "/", "*">>,
      <<"src", "\\", "**">>, <<"*", "2">> }
    \cup {<<ToString(n)>> : n \in 0..MaxIndex}

\* cmd.eq_ignore_ascii_case("q")
IsQuit(cmd) == cmd \in {<<"q">>, <<"Q">>}

\* cmd.parse::<usize>() of the whole line: the number, -1 for Err
ParseRequest(cmd) == IF Len(cmd) = 1 THEN ParseUsize(cmd[1]) ELSE -1

\* lines 63-67: the ids of the files the glob matches, in file order
RECURSIVE GlobSelect(_, _, _)
GlobSelect(glob, fs, i) ==
    IF i > Len(fs) THEN <<>>
    ELSE (IF GlobMatch(glob, PathStr(fs[i].path)) THEN <<i - 1>> ELSE <<>>)
         \o GlobSelect(glob, fs, i + 1)

\* faulty variant: a glob selects every file, matched or not
Selection_all(cmd, fs) ==
    IF ParseRequest(cmd) # -1
    THEN (IF ParseRequest(cmd) < Len(fs) THEN <<ParseRequest(cmd)>> ELSE <<>>)
    ELSE IF GlobValid(ReplaceBackslash(cmd))
    THEN [i \in 1..Len(fs) |-> i - 1]
    ELSE <<>>

\* lines 46-75: the ids selected by a request; none when the loop continues
Selection(cmd, fs) ==
    IF ParseRequest(cmd) # -1
    THEN (IF ParseRequest(cmd) < Len(fs) THEN <<ParseRequest(cmd)>> ELSE <<>>)
    ELSE IF GlobValid(ReplaceBackslash(cmd))
    THEN GlobSelect(ReplaceBackslash(cmd), fs, 1)
    ELSE <<>>

\* lines 78-96: the block printed and copied for the file id
FileOut(id, fc, esc) ==
    <<"<file-contents", " id=\"">> \o Num(id) \o <<"\" path=\"">>
    \o maybe_escape_attr(PathStr(fc.path), esc) \o <<"\" name=\"">>
    \o maybe_escape_attr(FileName(fc.path), esc) \o <<"\" folder=\"">>
    \o maybe_escape_attr(FolderShown(fc), esc) \o <<"\">\n">>
    \o maybe_escape_text(fc.contents, esc) \o <<NL, "</file-contents>\n">>

FilesOut(sel, fs, esc) == [k \in 1..Len(sel) |-> FileOut(sel[k], fs[sel[k] + 1], esc)]

\* the file lists the REPL is run on: small files only
MultiFileLists ==
    {fs \in FileLists : \A i \in 1..Len(fs) : fs[i].contents \in SmallContents}

MultiInit ==
    /\ files \in MultiFileLists
    /\ chunk_limit \in {0, MaxLimit}
    /\ escape_xml \in BOOLEAN
    /\ git \in GitStates
    /\ PackStart
    /\ TokIdle
    /\ candidate_files = <<>>
    /\ call = NoCallMade
    /\ ret = NoCallMade
    /\ cli \in {c \in [interactive : {FALSE}, no_clipboard : BOOLEAN, stdout : BOOLEAN,
                       chunk_index : {<<>>}, escape_xml : BOOLEAN] :
                    c.escape_xml = escape_xml}
    /\ mpc = "idle"
    /\ printed = <<>>
    /\ clipboard = <<>>
    /\ exit_code = -1
    /\ stream_idx = 0
    /\ panic_hook = <<"default">>
    /\ hook_guard = <<>>
    /\ hook_ran = <<>>

multiIdle == <<inputVars, now, effective_limit, attempt, bodies, metas, max_blocks, splits,
               header_oversize, scan, chunks, warnings, first_run,
               candidate_files, ret, cli, stream_idx, panic_hook, hook_guard, hook_ran>>

\* build_chunks_with_header(chunk_limit, escape_xml, true, include_git)
CallMultiStep ==
    /\ pc = "idle"
    /\ rendered_chunks' =
          <<[xml |-> MultiStepHeader(files, chunk_limit, escape_xml, git, now),
             tokens |-> Count(MultiStepHeader(files, chunk_limit, escape_xml, git, now))]>>
    /\ result' = "ok"
    /\ pc' = "done"
    /\ runs' = runs + 1
    /\ CountsTokens(TRUE)
    /\ UNCHANGED <<multiIdle, call, mpc, printed, clipboard, exit_code>>

\* multi_step_mode, lines 17-30: the header snippet is printed and copied
ReplStart ==
    /\ pc = "done"
    /\ mpc = "idle"
    /\ printed' = IF cli.stdout THEN <<rendered_chunks[1].xml>> ELSE <<>>
    /\ clipboard' = IF ~cli.no_clipboard THEN <<rendered_chunks[1].xml>> ELSE <<>>
    /\ mpc' = "repl"
    /\ UNCHANGED <<multiIdle, tokVars, pc, rendered_chunks, result, runs, call, exit_code>>

\* multi_step_mode, lines 33-110: one turn of the REPL on the line read
ReplRead(cmd) ==
    /\ mpc = "repl"
    /\ call' = [op |-> "request", cmd |-> cmd]
    /\ IF IsQuit(cmd)
       THEN mpc' = "exit" /\ exit_code' = 0 /\ UNCHANGED <<printed, clipboard>>
       ELSE /\ Len(printed) <= MaxShown /\ Len(clipboard) <= MaxShown
            /\ printed' = IF cli.stdout
                          THEN printed \o FilesOut(Selection(cmd, files), files, cli.escape_xml)
                          ELSE printed
            /\ clipboard' = IF ~cli.no_clipboard
                            THEN clipboard
                                 \o FilesOut(Selection(cmd, files), files, cli.escape_xml)
                            ELSE clipboard
            /\ UNCHANGED <<mpc, exit_code>>
    /\ UNCHANGED <<multiIdle, tokVars, pc, rendered_chunks, result, runs>>

MultiNext ==
    \/ CallMultiStep
    \/ ReplStart
    \/ \E cmd \in RequestLines : ReplRead(cmd)

SpecMulti == MultiInit /\ [][MultiNext]_vars

\* the line names a file id below the file count, or is a glob that matches the
\* path of a file
ValidRequest(cmd, fs) ==
    IF ParseRequest(cmd) # -1 THEN ParseRequest(cmd) < Len(fs)
    ELSE /\ GlobValid(ReplaceBackslash(cmd))
         /\ \E i \in 1..Len(fs) : GlobMatch(ReplaceBackslash(cmd), PathStr(fs[i].path))

\* the manifest row k of the header lists file k with parts = 1
ListsWhole(xml, k, fs, esc) ==
    /\ StartsWith(From(xml, RowStarts(xml)[k]),
                  <<"    <file", " id=\"">> \o Num(k - 1) \o <<"\" path=\"">>
                  \o maybe_escape_attr(PathStr(fs[k].path), esc) \o <<"\" tokens=\"">>)
    /\ StartsWith(From(xml, FirstIndex(From(xml, RowStarts(xml)[k]), "\" parts=\"")
                            + RowStarts(xml)[k] - 1),
                  <<"\" parts=\"", "1", "\"/>\n">>)

\* a step of the REPL on a line that is not q
Requests == mpc = "repl" /\ mpc' = "repl"

\* C16. Multi-step mode: build_chunks_with_header with multi_step stores exactly
\* one rendered chunk, the header, with total-chunks = 1, one manifest row per
\* input file with parts = 1, and no file-contents block; in the REPL a request
\* emits file contents only when it names a file id below the file count or is a
\* glob matching a file, and any other request prints nothing, copies nothing, and
\* leaves the REPL running.
C16_MultiStep ==
    /\ [](pc = "done" =>
            /\ result = "ok"
            /\ Len(rendered_chunks) = 1
            /\ rendered_chunks[1].tokens = Count(HeaderSnippet)
            /\ TotalChunksOf(HeaderSnippet) = <<"1">>
            /\ Len(RowStarts(HeaderSnippet)) = Len(files)
            /\ \A k \in 1..Len(files) : ListsWhole(HeaderSnippet, k, files, escape_xml)
            /\ ~Contains(HeaderSnippet, "<file-contents")
            /\ ~Contains(HeaderSnippet, "    <file-contents")
            /\ ~Contains(HeaderSnippet, "<context-chunk"))
    /\ [][Requests =>
            IF ValidRequest(call'.cmd, files)
            THEN /\ cli.stdout => Len(printed') > Len(printed)
                 /\ ~cli.no_clipboard => Len(clipboard') > Len(clipboard)
            ELSE printed' = printed /\ clipboard' = clipboard]_vars
    /\ [][(mpc = "repl" /\ mpc' # "repl") => IsQuit(call'.cmd)]_vars

\* two files listed in the header; a glob request emitted both of them after an
\* invalid request had emitted nothing
C16_Witness ==
    /\ mpc = "repl"
    /\ Len(files) = 2
    /\ Len(rendered_chunks) = 1
    /\ cli.stdout
    /\ Len(printed) = 3
    /\ call.op = "request"
    /\ ParseRequest(call.cmd) = -1
    /\ ValidRequest(call.cmd, files)

-----------------------------------------------------------------------------
\* ui/interactive.rs: select_files_tui and the panic hook.
\*
\* A hook is the chain of closures a panic runs, outermost first: "wrapper" is
\* the terminal-cleanup closure of select_files_tui, "forward" the closure that
\* HookGuard::drop installs, and the last element the hook at the bottom
\* ("default" is the one of std, "custom" one the embedding program installed).

MaxHookDepth == 2

BaseHooks == {<<"default">>, <<"custom">>}

\* panic::set_hook of the closure of lines 79-86 around the hook taken
WrapperHook(original) == <<"wrapper">> \o original

HookGuardDrop_keep(current, original) == current

\* HookGuard::drop: the hook after it, given the hook in place and the one held
HookGuardDrop(current, original) == <<"forward">> \o original

\* the lists of paths state.selected_paths() can return: the checked items, in order
SelectedPaths(paths) == {Pick(paths, keep, 1) : keep \in SUBSET (1..Len(paths))}

TuiInit ==
    /\ PackIdle
    /\ TokIdle
    /\ candidate_files \in CandidateLists
    /\ call = NoCallMade
    /\ ret = NoCallMade
    /\ cli = DefaultCli
    /\ mpc = "idle"
    /\ printed = <<>>
    /\ clipboard = <<>>
    /\ exit_code = -1
    /\ stream_idx = 0
    /\ panic_hook \in BaseHooks
    /\ hook_guard = <<>>
    /\ hook_ran = <<>>

tuiIdle == <<packVars, tokVars, candidate_files, cli, printed, clipboard, stream_idx>>

\* the return of select_files_tui: the locals are dropped, _guard among them
TuiReturn(res, via, paths) ==
    /\ ret' = [op |-> "select_files_tui", res |-> res, via |-> via, paths |-> paths]
    /\ panic_hook' = HookGuardDrop(panic_hook, hook_guard)
    /\ hook_guard' = <<>>
    /\ mpc' = "returned"

\* the call up to the TTY check (lines 61-70)
TuiCall ==
    /\ mpc \in {"idle", "returned"}
    /\ Len(panic_hook) <= MaxHookDepth
    /\ \E tty \in BOOLEAN, autoquit \in BOOLEAN :
          /\ call' = [op |-> "select_files_tui", paths |-> candidate_files,
                      before |-> panic_hook, autoquit |-> autoquit]
          /\ IF tty
             THEN /\ mpc' = "install"
                  /\ ret' = NoCallMade
             ELSE /\ mpc' = "returned"
                  /\ ret' = [op |-> "select_files_tui", res |-> "Err", via |-> "tty",
                             paths |-> <<>>]
    /\ UNCHANGED <<tuiIdle, exit_code, panic_hook, hook_guard, hook_ran>>

\* take_hook, the guard and set_hook (lines 73-86)
TuiInstall ==
    /\ mpc = "install"
    /\ hook_guard' = panic_hook
    /\ panic_hook' = WrapperHook(panic_hook)
    /\ mpc' = "installed"
    /\ UNCHANGED <<tuiIdle, call, ret, exit_code, hook_ran>>

\* CG_TEST_AUTOQUIT is set (lines 89-91)
TuiAutoquit ==
    /\ mpc = "installed"
    /\ call.autoquit
    /\ TuiReturn("Ok", "autoquit", call.paths)
    /\ UNCHANGED <<tuiIdle, call, exit_code, hook_ran>>

\* the terminal setup, each step of which can fail (lines 97-102)
TuiSetup ==
    /\ mpc = "installed"
    /\ ~call.autoquit
    /\ \E step \in {"none", "enable_raw_mode", "execute", "Terminal::new"} :
          IF step = "none"
          THEN /\ mpc' = "loop"
               /\ UNCHANGED <<ret, panic_hook, hook_guard>>
          ELSE TuiReturn("Err", step, <<>>)
    /\ UNCHANGED <<tuiIdle, call, exit_code, hook_ran>>

\* what tui_events::handle_event can hand back: Some(Quit), Some(Submit), or
\* anything else (None or another message)
UiMsgs == {"Quit", "Submit", "Other"}

\* one turn of the event loop (lines 105-124): draw or event::read fails, or the
\* message of handle_event is matched; any other message starts the next turn
TuiEvent ==
    /\ mpc = "loop"
    /\ \/ \E step \in {"draw", "read"} : TuiReturn("Err", step, <<>>)
       \/ \E msg \in UiMsgs :
             CASE msg = "Quit" -> TuiReturn("Ok", "quit", <<>>)
               [] msg = "Submit" ->
                     \E sel \in SelectedPaths(call.paths) : TuiReturn("Ok", "submit", sel)
               [] OTHER -> UNCHANGED <<ret, panic_hook, hook_guard, mpc>>
    /\ UNCHANGED <<tuiIdle, call, exit_code, hook_ran>>

\* What a panic runs while the HookGuard of select_files_tui is alive: the hook
\* for the panic itself; the unwinding drops _guard, whose set_hook (line 26)
\* panics because the thread is panicking, which runs the hook again; that panic
\* leaves a destructor during unwinding, which the runtime reports as a panic that
\* cannot unwind, running the hook once more before it aborts the process
PanicUnderGuard(hook) == RunHook(hook) \o RunHook(hook) \o RunHook(hook)

\* a panic inside select_files_tui while the wrapper is the hook
TuiPanic ==
    /\ mpc \in {"installed", "loop"}
    /\ hook_ran' = PanicUnderGuard(panic_hook)
    /\ mpc' = "aborted"
    /\ exit_code' = 134
    /\ UNCHANGED <<tuiIdle, call, ret, panic_hook, hook_guard>>

\* a panic after the return, caught by the caller
LaterPanic ==
    /\ mpc = "returned"
    /\ hook_ran' = RunHook(panic_hook)
    /\ UNCHANGED <<tuiIdle, call, ret, mpc, exit_code, panic_hook, hook_guard>>

TuiNext ==
    \/ TuiCall
    \/ TuiInstall
    \/ TuiAutoquit
    \/ TuiSetup
    \/ TuiEvent
    \/ TuiPanic
    \/ LaterPanic

SpecTui == TuiInit /\ [][TuiNext]_vars

\* select_files_tui has returned
TuiReturned == mpc = "returned" /\ ret.op = "select_files_tui"

\* C17. Panic-hook restoration: once select_files_tui has returned, by whatever
\* path, no guard is left, the hook in place does what the hook installed before
\* the call does and holds no terminal-cleanup wrapper, and a panic that follows
\* runs exactly the hook installed before the call, without the cleanup.
C17_HookRestored ==
    /\ [](TuiReturned =>
            /\ hook_guard = <<>>
            /\ RunHook(panic_hook) = RunHook(call.before)
            /\ ~Contains(panic_hook, "wrapper"))
    /\ [][(TuiReturned /\ mpc' = "returned" /\ hook_ran' # hook_ran) =>
            /\ hook_ran' = RunHook(call.before)
            /\ ~Contains(hook_ran', "cleanup")]_vars

\* the loop was left by a submit after the wrapper was installed over a custom
\* hook, and the panic that followed ran the custom hook alone
C17_Witness ==
    /\ TuiReturned
    /\ ret.via = "submit"
    /\ ret.paths # <<>>
    /\ call.before = <<"custom">>
    /\ panic_hook = <<"forward", "custom">>
    /\ hook_ran = <<"custom">>

-----------------------------------------------------------------------------
\* Block rendering on texts that hold the characters to escape: wrap_file and
\* wrap_part as build_chunk_bodies calls them, the body being
\* maybe_escape_text of the contents.

MaxPathLen == 2
MaxBodyLen == 2

\* one token per character to escape, a word, and the tail of an entity as a text
EscTokens == {"w", "&", "<", ">", "\"", "'", "amp;"}

\* the tokens of a body: quotes are escaped in attributes alone
BodyTokens == {"w", "&", "<", ">", "\""}

EscPaths == UNION {[1..n -> EscTokens] : n \in 1..MaxPathLen}
EscBodies == UNION {[1..n -> BodyTokens] : n \in 0..MaxBodyLen}

\* the limits of the calls: none, one no block fits, one every block here fits
EscLimits == {0, 1, MaxLimit}

EscInit ==
    /\ PackIdle
    /\ TokIdle
    /\ candidate_files = <<>>
    /\ call \in [op : {"build_chunk_bodies"}, path : EscPaths, contents : EscBodies,
                 escape_xml : BOOLEAN, max_tokens : EscLimits]
    /\ ret = NoCallMade
    /\ cli = DefaultCli
    /\ mpc = "idle"
    /\ printed = <<>>
    /\ clipboard = <<>>
    /\ exit_code = -1
    /\ stream_idx = 0
    /\ panic_hook = <<"default">>
    /\ hook_guard = <<>>
    /\ hook_ran = <<>>

escIdle == <<inputVars, now, pc, loopVars, chunks, rendered_chunks, result, runs, first_run,
             candidate_files, call, cli, mpc, printed, clipboard, exit_code, stream_idx,
             panic_hook, hook_guard, hook_ran>>

\* the file of the call, and what build_chunk_bodies makes of it (lines 208-252)
EscFile == [folder |-> FolderDisplay(call.path), path |-> call.path, contents |-> call.contents]
EscBlocks == FileBlocks(0, EscFile, call.max_tokens, call.escape_xml)

\* line 215: the block of the whole file is within the limit, or there is none
EscWhole ==
    \/ call.max_tokens = 0
    \/ Count(wrap_file(call.path, maybe_escape_text(call.contents, call.escape_xml),
                       call.escape_xml)) <= call.max_tokens

\* the block of a file that is not split (chunker.rs 209-227); the contents and
\* the block are counted (211, 213)
RenderFile ==
    /\ ret.op = "none"
    /\ EscWhole
    /\ ret' = [op |-> "wrap_file", xml |-> EscBlocks.blocks[1].xml]
    /\ warnings' = {}
    /\ CountsTokens(TRUE)
    /\ UNCHANGED escIdle

\* a block of a file that is split (chunker.rs 229-252): the parts of
\* split_file_into_parts are wrapped with the final count, and a part over the
\* limit is warned of
RenderPart ==
    /\ ret.op = "none"
    /\ ~EscWhole
    /\ \E k \in 1..Len(EscBlocks.blocks) :
          ret' = [op |-> "wrap_part", xml |-> EscBlocks.blocks[k].xml]
    /\ warnings' = IF EscBlocks.warn THEN {"oversize part"} ELSE {}
    /\ CountsTokens(TRUE)
    /\ UNCHANGED escIdle

EscNext == RenderFile \/ RenderPart

SpecEsc == EscInit /\ [][EscNext]_vars

EntityNames == {"amp;", "lt;", "gt;", "quot;", "apos;"}

\* the tokens of xml after the first token open and before the first token in closes
Between(xml, open, closes) ==
    SubSeq(xml, FirstIndex(xml, open) + 1,
           (CHOOSE i \in 1..Len(xml) :
               /\ xml[i] \in closes
               /\ i > FirstIndex(xml, open)
               /\ \A j \in (FirstIndex(xml, open) + 1)..(i - 1) : xml[j] \notin closes) - 1)

\* no raw <, >, " or ' and every & starts an entity
AttrSafe(r) ==
    \A i \in 1..Len(r) :
        /\ r[i] \notin {"<", ">", "\"", "'"}
        /\ r[i] = "&" => (i < Len(r) /\ r[i + 1] \in EntityNames)

\* the attribute as rendered: escaped when the value holds a character to
\* escape, and safe in any case
AttrRendered(r, value) ==
    /\ needs_escape_attr(value) => r = escape_xml_inner(value, TRUE)
    /\ ~needs_escape_attr(value) => r = value
    /\ AttrSafe(r)

\* the body of the block rendered: what stands between the opening tag and the
\* closing tag, less the newline the rendering adds
RenderedBody(xml) == SubSeq(xml, FirstIndex(xml, TagEnd) + 1, Len(xml) - 2)

\* C18. Block rendering in both escaping modes: with escaping disabled the body
\* of the block is the contents unchanged; the path, name and folder attributes
\* are escaped whenever their value holds one of & < > " ', hold no raw <, >,
\* " or ', and every & in them starts an entity; with escaping enabled the body
\* holds no raw < or >.
C18_BlockEscaping ==
    ret.op \in {"wrap_file", "wrap_part"} =>
        /\ ~call.escape_xml => RenderedBody(ret.xml) = call.contents
        /\ call.escape_xml =>
              /\ ~Contains(RenderedBody(ret.xml), "<")
              /\ ~Contains(RenderedBody(ret.xml), ">")
              /\ RenderedBody(ret.xml) = escape_xml_inner(call.contents, FALSE)
        /\ AttrRendered(Between(ret.xml, " path=\"", {"\" name=\""}), PathStr(call.path))
        /\ AttrRendered(Between(ret.xml, "\" name=\"", {"\" folder=\""}), FileName(call.path))
        /\ AttrRendered(Between(ret.xml, "\" folder=\"", {TagEnd, PartTag}),
                        FolderDisplay(call.path))

\* a part rendered without escaping whose body holds a raw < and a quote and
\* whose path holds a quote and an ampersand, both escaped in the attribute
C18_Witness ==
    /\ ret.op = "wrap_part"
    /\ ~call.escape_xml
    /\ call.contents = <<"<", "\"">>
    /\ call.path = <<"\"", "&">>
    /\ Between(ret.xml, " path=\"", {"\" name=\""}) = <<"&", "quot;", "/", "&", "amp;">>
    /\ Between(ret.xml, "\" name=\"", {"\" folder=\""}) = <<"&", "amp;">>

-----------------------------------------------------------------------------
\* split_file_into_parts turn by turn, as build_chunk_bodies calls it: on the
\* escaped contents of a file whose whole block is over a limit that is not 0.
\* ret holds the last split_with_total: the total guessed, the parts and the
\* number of warnings it gave, the turns made and target_parts after the turn.

MaxSplitLines == 3

SplitContents ==
    {JoinNL(ls) : ls \in UNION {[1..n -> LineKinds] : n \in 1..MaxSplitLines}}
    \cup LongContents

SplitCalls ==
    {[op |-> "split_file_into_parts", path |-> PathOf(i),
      contents |-> maybe_escape_text(c, esc), max_tokens |-> m, escape_xml |-> esc] :
        i \in 1..2, c \in SplitContents, m \in 1..MaxLimit, esc \in BOOLEAN}
    \cup {[op |-> "split_file_into_parts", path |-> PathOf(1), contents |-> c,
           max_tokens |-> m, escape_xml |-> FALSE] :
            c \in WideContents, m \in WideLimits}

SplitInit ==
    /\ PackIdle
    /\ TokCounted
    /\ candidate_files = <<>>
    /\ call \in SplitCalls
    /\ Count(wrap_file(call.path, call.contents, call.escape_xml)) > call.max_tokens
    /\ ret = NoCallMade
    /\ cli = DefaultCli
    /\ mpc = "split"
    /\ printed = <<>>
    /\ clipboard = <<>>
    /\ exit_code = -1
    /\ stream_idx = 0
    /\ panic_hook = <<"default">>
    /\ hook_guard = <<>>
    /\ hook_ran = <<>>

\* let mut target_parts = 1usize, and its value after a turn
TargetParts == IF ret.op = "none" THEN 1 ELSE ret.target_parts

\* the turns of the for _ in 0..16 loop made so far
SplitTurns == IF ret.op = "none" THEN 0 ELSE ret.turns

\* let actual = parts.len().max(1)
ActualParts(parts) == Max2(Len(parts), 1)

\* one turn of the loop of split_file_into_parts (lines 187-194), the return of
\* line 191 or of line 195 included
SplitTurn ==
    /\ mpc = "split"
    /\ \E r \in {SplitRun(LinesOf(call.contents), call.path, call.max_tokens,
                          call.escape_xml, TargetParts)} :
          /\ ret' = [op |-> "split_with_total", total_parts |-> TargetParts,
                     parts |-> r.parts, warns |-> r.warns, turns |-> SplitTurns + 1,
                     target_parts |-> ActualParts(r.parts)]
          /\ mpc' = IF ActualParts(r.parts) = TargetParts
                       \/ SplitTurns + 1 >= MaxSplitAttempts
                    THEN "returned" ELSE "split"
    /\ CountsTokens(TRUE)
    /\ UNCHANGED <<packVars, candidate_files, call, cli, printed, clipboard,
                   exit_code, stream_idx, panic_hook, hook_guard, hook_ran>>

SplitNext == SplitTurn

SpecSplit == SplitInit /\ [][SplitNext]_vars

Splitted == ret.op = "split_with_total"

\* the number of lines of a part
LinesOfPart(part) == Cardinality({i \in 1..Len(part) : part[i] = NL})

\* the parts of the last split whose rendering with the guessed total is over the limit
OverParts ==
    {k \in 1..Len(ret.parts) :
        PartTokens(call.path, k, ret.total_parts, ret.parts[k], call.escape_xml)
            > call.max_tokens}

\* C20. Oversize line: the parts of split_with_total are the lines in order,
\* whole and none left out; a part whose rendering with the guessed total is
\* over max_tokens holds one line only, and there is one warning for each such
\* part; so every part of two or more lines is within max_tokens.
C20_OversizeLine ==
    Splitted =>
        /\ Flatten(ret.parts) = Flatten(LinesOf(call.contents))
        /\ \A k \in 1..Len(ret.parts) :
              /\ ret.parts[k] # <<>>
              /\ ret.parts[k][Len(ret.parts[k])] = NL
              /\ LinesOfPart(ret.parts[k]) >= 2 =>
                    PartTokens(call.path, k, ret.total_parts, ret.parts[k],
                               call.escape_xml) <= call.max_tokens
        /\ \A k \in OverParts : LinesOfPart(ret.parts[k]) = 1
        /\ ret.warns = Cardinality(OverParts)

\* a split with a guess of two that gave a part of two lines filled to the limit
\* and a part that is one line over the limit, warned of once
C20_Witness ==
    /\ Splitted
    /\ ret.total_parts = 2
    /\ Len(ret.parts) = 2
    /\ LinesOfPart(ret.parts[1]) = 2
    /\ PartTokens(call.path, 1, 2, ret.parts[1], call.escape_xml) = call.max_tokens
    /\ OverParts = {2}
    /\ ret.warns = 1

-----------------------------------------------------------------------------
\* Splits of the lines of a file into contiguous parts, to compare with the one
\* split_file_into_parts returns.

\* lines i..j of the file as the text of one part
LinesFromTo(i, j) == Flatten(SubSeq(LinesOf(call.contents), i, j))

\* lines i..j can be the part idx of total: rendered they fit the limit, or they
\* are one line, which when oversize is excepted
CanBePart(i, j, idx, total) ==
    \/ i = j
    \/ PartTokens(call.path, idx, total, LinesFromTo(i, j), call.escape_xml)
          <= call.max_tokens

\* the line numbers at which the part idx can end in a split into total parts
RECURSIVE PartEnds(_, _)
PartEnds(idx, total) ==
    IF idx = 0 THEN {0}
    ELSE UNION {{j \in 1..Len(LinesOf(call.contents)) :
                    \E i \in prev : i < j /\ CanBePart(i + 1, j, idx, total)} :
                prev \in {PartEnds(idx - 1, total)}}

\* the lines can be split into exactly total parts that fit
SplitsInto(total) == Len(LinesOf(call.contents)) \in PartEnds(total, total)

MaxFewestLines == 20

\* the calls on which the splits are compared: one path, files of up to
\* MaxFewestLines lines, and a limit that an empty line fits as part 1/1 (under
\* it every line is oversize and a part of its own)
FewestInit ==
    /\ SplitInit
    /\ call.path = PathOf(1)
    /\ Len(LinesOf(call.contents)) <= MaxFewestLines
    /\ PartTokens(call.path, 1, 1, <<NL>>, call.escape_xml) <= call.max_tokens

SpecFewest == FewestInit /\ [][SplitNext]_vars

\* C21. Fewest parts: when split_file_into_parts has returned N parts, the lines
\* of the file cannot be split into fewer than N contiguous parts of which each,
\* rendered with its part="i/total" attribute, fits max_tokens or is a single
\* line.
C21_FewestParts ==
    mpc = "returned" =>
        \A total \in 1..(Len(ret.parts) - 1) : ~SplitsInto(total)

\* three parts or more were returned without a warning, one of them of two
\* lines or more, and the lines can be split into that many parts
C21_Witness ==
    /\ mpc = "returned"
    /\ Len(ret.parts) >= 3
    /\ ret.warns = 0
    /\ \E k \in 1..Len(ret.parts) : LinesOfPart(ret.parts[k]) >= 2
    /\ SplitsInto(Len(ret.parts))

-----------------------------------------------------------------------------
(* Further claims about the convergence loop of build_chunks_with_header (Spec) *)

MaxManyFiles == 4

\* lists of three files or more, each an empty line or a word: bodies of several
\* blocks with bodies before and after them
ManyFileLists ==
    {[i \in 1..Len(cs) |-> FileAt(i, cs[i])] :
        cs \in UNION {[1..n -> {WordLine(0), WordLine(1)}] : n \in 3..MaxManyFiles}}

ManyInit ==
    /\ files \in ManyFileLists
    /\ chunk_limit \in Limits
    /\ escape_xml \in BOOLEAN
    /\ git \in GitStates
    /\ PackStart
    /\ TokIdle
    /\ UiIdle

SpecMany == ManyInit /\ [][Next]_vars

\* the decision of an inner iteration is to detach: the scan stopped at a chunk
DetachDue == pc = "decide" /\ scan.split # 0

BodyTokenSum(bs) == SumSeq([i \in 1..Len(bs) |-> bs[i].tokens])

\* C22. Detach step: the scan stops at the first body chunk of more than one
\* block that renders over the limit, and at no other; the step that follows
\* takes the last block out of that body and makes it a body of its own right
\* after it: one body more, the same blocks in the same order over all bodies,
\* the same token sum, every other body and the file metadata as they were.
C22_DetachStep ==
    /\ [](pc = "decide" =>
            /\ scan.split # 0 =>
                  /\ chunk_limit > 0
                  /\ Len(bodies[scan.split].blocks) > 1
                  /\ scan.tokens[scan.split + 1] > chunk_limit
            /\ \A k \in 1..(Len(scan.tokens) - 1) :
                  (chunk_limit > 0 /\ Len(bodies[k].blocks) > 1
                      /\ scan.tokens[k + 1] > chunk_limit) => scan.split = k
            /\ scan.split = 0 => Len(scan.tokens) = Len(bodies) + 1)
    /\ [][DetachDue =>
            /\ Len(bodies') = Len(bodies) + 1
            /\ bodies'[scan.split].blocks
                  = SubSeq(bodies[scan.split].blocks, 1,
                           Len(bodies[scan.split].blocks) - 1)
            /\ bodies'[scan.split + 1].blocks
                  = <<bodies[scan.split].blocks[Len(bodies[scan.split].blocks)]>>
            /\ AllBlocks(bodies') = AllBlocks(bodies)
            /\ BodyTokenSum(bodies') = BodyTokenSum(bodies)
            /\ \A i \in 1..Len(bodies) :
                  /\ i < scan.split => bodies'[i] = bodies[i]
                  /\ i > scan.split => bodies'[i + 1] = bodies[i]
            /\ metas' = metas
            /\ splits' = splits + 1]_vars

\* a detach was made in a pass that packed two blocks or more into a body that
\* is neither the first nor the last: bodies stand before and after the new one
C22_Witness ==
    /\ pc = "loop"
    /\ splits >= 1
    /\ Len(bodies) >= 4
    /\ \E k \in 2..(Len(bodies) - 2) :
          /\ Len(bodies[k + 1].blocks) = 1
          /\ bodies[k].tokens + bodies[k + 1].tokens <= effective_limit

-----------------------------------------------------------------------------
(* build_chunk_bodies on lists of several small files *)

SpecManyPack == ManyInit /\ [][PackNext]_vars

\* the tokens of the first n blocks of a body
PrefixTokens(body, n) == SumSeq([j \in 1..n |-> body.blocks[j].tokens])

\* C23. Greedy packing: for max_tokens > 0 the bodies build_chunk_bodies returns
\* are the blocks of the files in order; a block stands in the body of the block
\* before it exactly when the tokens of that body up to it, the block included,
\* are <= max_tokens: every block after the first of a body fitted, and the
\* first block of every body but the first did not fit into the body before;
\* so a body of two or more blocks has tokens <= max_tokens, and a block of more
\* than max_tokens tokens is alone in its body.
C23_GreedyPacking ==
    (pc = "bodies" /\ chunk_limit > 0) =>
        /\ AllBlocks(bodies)
              = Flatten([i \in 1..Len(files) |->
                            FileBlocks(i - 1, files[i], chunk_limit, escape_xml).blocks])
        /\ \A k \in 1..Len(bodies) :
              /\ bodies[k].blocks # <<>>
              /\ bodies[k].tokens = PrefixTokens(bodies[k], Len(bodies[k].blocks))
              /\ \A n \in 2..Len(bodies[k].blocks) :
                    PrefixTokens(bodies[k], n) <= chunk_limit
              /\ k > 1 => bodies[k - 1].tokens + bodies[k].blocks[1].tokens > chunk_limit
              /\ Len(bodies[k].blocks) >= 2 => bodies[k].tokens <= chunk_limit
              /\ \A n \in 1..Len(bodies[k].blocks) :
                    bodies[k].blocks[n].tokens > chunk_limit => Len(bodies[k].blocks) = 1

\* four files packed into a body of two blocks filled to the limit exactly and
\* a second body that the third block opened
C23_Witness ==
    /\ pc = "bodies"
    /\ chunk_limit > 0
    /\ Len(files) = 4
    /\ Len(bodies) >= 2
    /\ Len(bodies[1].blocks) = 2
    /\ bodies[1].tokens = chunk_limit
    /\ Len(bodies[2].blocks) >= 2

-----------------------------------------------------------------------------
\* ui/stream.rs: streaming_mode over the rendered chunks of a pipeline whose
\* build_chunks_with_header has returned Ok. The clipboard is available.

StreamLines == StdinLines \cup {"Q"}

StreamInit ==
    /\ files \in {fs \in ManyFileLists : Len(fs) = 3}
    /\ chunk_limit \in Limits
    /\ escape_xml = FALSE
    /\ git = "off"
    /\ PackStart
    /\ TokIdle
    /\ candidate_files = <<>>
    /\ call = NoCallMade
    /\ ret = NoCallMade
    /\ cli \in {c \in [interactive : {FALSE}, no_clipboard : BOOLEAN, stdout : BOOLEAN,
                       chunk_index : {<<>>}, escape_xml : {FALSE}] :
                    c.no_clipboard \/ ~c.stdout}
    /\ mpc = "idle"
    /\ printed = <<>>
    /\ clipboard = <<>>
    /\ exit_code = -1
    /\ stream_idx = 0
    /\ panic_hook = <<"default">>
    /\ hook_guard = <<>>
    /\ hook_ran = <<>>

streamIdle == <<packVars, tokVars, candidate_files, ret, cli, panic_hook, hook_guard>>

\* faulty variant: a number is taken as the index whatever the number of chunks
NextIdx_unchecked(idx, cmd, total) ==
    IF cmd = "" THEN (idx + 1) % total
    ELSE IF ParseUsize(cmd) # -1 THEN ParseUsize(cmd)
    ELSE idx

\* lines 146-158: the index after a command that is not q
NextIdx(idx, cmd, total) ==
    IF cmd = "" THEN (idx + 1) % total
    ELSE IF ParseUsize(cmd) # -1 /\ ParseUsize(cmd) < total THEN ParseUsize(cmd)
    ELSE idx

\* lines 119-124: total and idx
SmStart ==
    /\ pc = "done"
    /\ result = "ok"
    /\ mpc = "idle"
    /\ stream_idx' = 0
    /\ mpc' = "stream"
    /\ UNCHANGED <<streamIdle, hook_ran, call, printed, clipboard, exit_code>>

\* lines 126-135: the snippet of the current chunk is printed and copied;
\* indexing past the chunks panics, which runs the panic hook
SmShow ==
    /\ mpc = "stream"
    /\ IF stream_idx >= Len(rendered_chunks)
       THEN /\ exit_code' = 101
            /\ mpc' = "exit"
            /\ hook_ran' = RunHook(panic_hook)
            /\ UNCHANGED <<printed, clipboard>>
       ELSE /\ printed' = IF cli.stdout
                          THEN Append(printed, rendered_chunks[stream_idx + 1].xml)
                          ELSE printed
            /\ clipboard' = IF ~cli.no_clipboard
                            THEN Append(clipboard, rendered_chunks[stream_idx + 1].xml)
                            ELSE clipboard
            /\ mpc' = "prompt"
            /\ UNCHANGED <<exit_code, hook_ran>>
    /\ UNCHANGED <<streamIdle, call, stream_idx>>

\* lines 136-158: the command read from stdin, trimmed
SmRead(cmd) ==
    /\ mpc = "prompt"
    /\ call' = [op |-> "read_line", cmd |-> cmd]
    /\ IF IsQuit(<<cmd>>)
       THEN mpc' = "returned" /\ UNCHANGED stream_idx
       ELSE /\ Len(printed) < MaxShown /\ Len(clipboard) < MaxShown
            /\ stream_idx' = NextIdx(stream_idx, cmd, Len(rendered_chunks))
            /\ mpc' = "stream"
    /\ UNCHANGED <<streamIdle, hook_ran, printed, clipboard, exit_code>>

StreamNext ==
    \/ Next
    \/ SmStart
    \/ SmShow
    \/ \E cmd \in StreamLines : SmRead(cmd)

SpecStream == StreamInit /\ [][StreamNext]_vars

Streaming == mpc \in {"stream", "prompt"}

\* a command is read
Reads == mpc = "prompt" /\ mpc' # "prompt"

\* C24. Streaming REPL: while streaming_mode runs over N chunks the index is in
\* 0..N-1; an empty command moves it to (index + 1) mod N, a number below N
\* sets it, a number of N or more and a command that is no number leave it as
\* it is, q ends the loop, and no step changes the rendered chunks, the bodies
\* or the metadata.
C24_StreamingRepl ==
    /\ [](Streaming =>
            /\ Len(rendered_chunks) >= 1
            /\ stream_idx \in 0..(Len(rendered_chunks) - 1))
    /\ [][Reads =>
            IF call'.cmd \in {"q", "Q"}
            THEN mpc' = "returned" /\ stream_idx' = stream_idx
            ELSE /\ mpc' = "stream"
                 /\ call'.cmd = "" =>
                       stream_idx' = (stream_idx + 1) % Len(rendered_chunks)
                 /\ \A n \in 0..MaxIndex :
                       call'.cmd = ToString(n) =>
                          stream_idx' = IF n < Len(rendered_chunks) THEN n ELSE stream_idx
                 /\ call'.cmd = "x" => stream_idx' = stream_idx]_vars
    /\ [][mpc # "idle" =>
            /\ rendered_chunks' = rendered_chunks
            /\ bodies' = bodies
            /\ metas' = metas]_vars

\* with two chunks, the number 3 was refused at index 1 and the chunk shown
\* again is the last one
C24_Witness ==
    /\ mpc = "prompt"
    /\ Len(rendered_chunks) = 2
    /\ call.op = "read_line"
    /\ call.cmd = "3"
    /\ stream_idx = 1
    /\ Len(printed) = 0
    /\ Len(clipboard) = 0

-----------------------------------------------------------------------------
(* The rule for a single oversize block (Spec) *)

\* the scan of a pass is complete: no chunk is left to split
Scanned == pc = "decide" /\ scan.split = 0

\* the body chunks the scan found to hold one block that renders over the limit
\* while the block itself is within it
ShrinkCause ==
    {idx \in 1..Len(bodies) :
        /\ chunk_limit > 0
        /\ scan.tokens[idx + 1] > chunk_limit
        /\ Len(bodies[idx].blocks) = 1
        /\ bodies[idx].blocks[1].tokens <= chunk_limit}

\* the marker overhead of a chunk of one block: snippet tokens less block tokens
Overhead(idx) == scan.tokens[idx + 1] - bodies[idx].blocks[1].tokens

RequiredLimit ==
    CHOOSE r \in {Max2(SatSub(chunk_limit, Overhead(idx)), scan.wrapper_floor) :
                     idx \in ShrinkCause} :
        \A idx \in ShrinkCause :
            r <= Max2(SatSub(chunk_limit, Overhead(idx)), scan.wrapper_floor)

-----------------------------------------------------------------------------
(* The effective limit from pass to pass (Spec) *)

\* a pass is about to pack: build_chunk_bodies is handed effective_limit
Packing == pc = "pack"

\* C26: for chunk_limit > 0 the effective limit handed to build_chunk_bodies is in
\* every pass at least 1 and at most chunk_limit, the first pass packs at
\* chunk_limit, and a further pass packs at a strictly smaller limit than the
\* pass before; it is never 0, the value that switches splitting off.
C26_EffectiveLimit ==
    /\ []((Packing /\ chunk_limit > 0) =>
            /\ 1 <= effective_limit
            /\ effective_limit <= chunk_limit
            /\ (attempt = 0 => effective_limit = chunk_limit))
    /\ [][(pc = "decide" /\ Packing') => effective_limit' < effective_limit]_vars
    /\ [][(pc \in {"pack", "loop"}) => (effective_limit' = effective_limit)]_vars

\* a second pass packs, at a limit shrunk by more than one token
C26_Witness ==
    /\ Packing
    /\ attempt = 1
    /\ chunk_limit > 0
    /\ 1 <= effective_limit
    /\ effective_limit + 2 <= chunk_limit

-----------------------------------------------------------------------------
(* The split counter of a pass (SpecMany) *)

\* the blocks of all bodies
BlockCount == SumSeq([i \in 1..Len(bodies) |-> Len(bodies[i].blocks)])

\* C27: within a pass the detach operations never outnumber the blocks of the
\* pass (max_blocks): every detach adds a body and no body is empty, so splits
\* stays below the number of bodies; the check splits > max_blocks never fails
\* and no detach ends the call with an error.
C27_SplitCounter ==
    /\ [](pc \in {"loop", "decide"} =>
            /\ max_blocks = BlockCount
            /\ Len(bodies) <= max_blocks
            /\ splits <= max_blocks
            /\ (bodies # <<>> => splits < Len(bodies)))
    /\ [][DetachDue => (pc' = "loop" /\ splits' = splits + 1 /\ result' = "none")]_vars

\* a pass after two detach operations
C27_Witness ==
    /\ pc = "loop"
    /\ splits = 2
    /\ max_blocks >= 4
    /\ Len(bodies) >= 3

-----------------------------------------------------------------------------
(* The bodies of a pass are well formed (SpecMany) *)

WellFormed(body) ==
    /\ body.blocks # <<>>
    /\ body.tokens = SumSeq([j \in 1..Len(body.blocks) |-> body.blocks[j].tokens])

\* C28: after packing and after every detach step each body holds at least one
\* block and its tokens field is the sum of the tokens of its blocks; the body a
\* detach pops from holds more than one block, so neither blocks[0] nor the pop
\* fails.
C28_BodiesWellFormed ==
    /\ [](pc \in {"loop", "decide"} => \A i \in 1..Len(bodies) : WellFormed(bodies[i]))
    /\ [](DetachDue => (scan.split \in 1..Len(bodies)
                        /\ Len(bodies[scan.split].blocks) > 1))
    /\ [][DetachDue => (/\ Len(bodies') = Len(bodies) + 1
                        /\ WellFormed(bodies'[scan.split])
                        /\ WellFormed(bodies'[scan.split + 1]))]_vars

\* after a detach a body of two blocks is to lose its last block in turn
C28_Witness ==
    /\ DetachDue
    /\ splits >= 1
    /\ Len(bodies[scan.split].blocks) = 2
    /\ bodies[scan.split].tokens
         = bodies[scan.split].blocks[1].tokens + bodies[scan.split].blocks[2].tokens

-----------------------------------------------------------------------------
(* The tokenizer under concurrency (SpecTok) *)

\* thread t is between the check of init() and its TOK.set
Installing(t) == tpc[t] = "set"

\* C29: under every interleaving of count() and init() calls of several threads
\* the tokenizer is installed at most once and never replaced, every call that
\* returned saw the installed tokenizer, in particular every count() encoded with
\* it, and init() returns an error only when it found no tokenizer, and another
\* thread installed one before its TOK.set; the init() that installs returns Ok
\* with the tokenizer it asked for.
C29_TokenizerRace ==
    /\ [][TOK = "unset" \/ TOK' = TOK]_vars
    /\ [](\A t \in Threads :
            tret[t].res \in {"ok", "err"} => (TOK # "unset" /\ tret[t].tok = TOK))
    /\ [][\A t \in Threads :
            (Installing(t) /\ ~Installing(t)') =>
                IF TOK = "unset"
                THEN tret'[t].res = "ok" /\ TOK' = Asked(t)
                ELSE tret'[t].res = "err" /\ TOK' = TOK]_vars
    /\ [][\A t \in Threads :
            (~Installing(t) /\ tret'[t] # tret[t]) => tret'[t].res # "err"]_vars

\* an init() lost the race to a count() of another thread, whose tokenizer stays
C29_Witness ==
    \E t, u \in Threads :
        /\ t # u
        /\ tret[t].op = "init"
        /\ tret[t].res = "err"
        /\ Asked(t) # TOK
        /\ tret[u].op = "count"
        /\ tret[u].tok = TOK

-----------------------------------------------------------------------------
(* ui/tui_state.rs: adjust_scroll_and_slice, and the window ui/tui_render.rs *)
(* takes with it                                                             *)

MaxScroll == 4

\* lines 180-186: the scroll offset follows the selection; the window ends
\* max_lines after it or at the end of the data
adjust_scroll_and_slice(sel, off, max_lines, data_len) ==
    LET scroll == IF sel < off THEN sel
                  ELSE IF sel >= off + max_lines THEN SatSub(sel, max_lines) + 1
                  ELSE off
    IN  [op |-> "adjust_scroll_and_slice", selected_idx |-> sel, scroll_offset |-> scroll,
         start |-> scroll, end |-> Min2(scroll + max_lines, data_len)]

\* a frame is to be drawn by the event loop of select_files_tui, whose wrapper
\* hook is installed and whose guard holds the hook taken: the list is filtered
\* and the selection is on one of its rows, or 0 when it has none
\* (ensure_filtered_files, lines 127-135)
ScrollInit ==
    /\ PackIdle
    /\ TokIdle
    /\ candidate_files = <<>>
    /\ call \in [op : {"render"}, selected_idx : 0..MaxScroll, scroll_offset : 0..MaxScroll,
                 max_lines : 0..MaxScroll, data_len : 0..MaxScroll]
    /\ call.selected_idx <= Max2(call.data_len - 1, 0)
    /\ ret = NoCallMade
    /\ cli = DefaultCli
    /\ mpc = "frame"
    /\ printed = <<>>
    /\ clipboard = <<>>
    /\ exit_code = -1
    /\ stream_idx = 0
    /\ hook_guard \in BaseHooks
    /\ panic_hook = WrapperHook(hook_guard)
    /\ hook_ran = <<>>

\* tui_render.rs 126-131: the window of the frame is computed
ScrollAdjust ==
    /\ mpc = "frame"
    /\ ret' = adjust_scroll_and_slice(call.selected_idx, call.scroll_offset,
                                      call.max_lines, call.data_len)
    /\ mpc' = "slice"
    /\ UNCHANGED <<packVars, tokVars, candidate_files, call, cli, printed, clipboard,
                   exit_code, stream_idx, panic_hook, hook_guard, hook_ran>>

\* tui_render.rs 132: &list[offset..end] panics unless offset <= end <= list.len();
\* the panic happens under the guard of select_files_tui: the wrapper hook runs for
\* it and for the two panics of the unwinding, and the process aborts
ScrollSlice ==
    /\ mpc = "slice"
    /\ IF ret.start <= ret.end /\ ret.end <= call.data_len
       THEN mpc' = "drawn" /\ UNCHANGED <<exit_code, hook_ran>>
       ELSE mpc' = "aborted" /\ exit_code' = 134 /\ hook_ran' = PanicUnderGuard(panic_hook)
    /\ UNCHANGED <<packVars, tokVars, candidate_files, call, ret, cli, printed, clipboard,
                   stream_idx, panic_hook, hook_guard>>

ScrollNext == ScrollAdjust \/ ScrollSlice

SpecScroll == ScrollInit /\ [][ScrollNext]_vars

Adjusted == ret.op = "adjust_scroll_and_slice"

\* C30. Scroll window: for every max_lines, data_len and prior scroll_offset, and
\* every selected_idx <= max(data_len - 1, 0), adjust_scroll_and_slice returns
\* start <= end <= data_len, so that the slice the renderer takes never panics;
\* with max_lines > 0 and data_len > 0 the selected index lies in start..end.
C30_ScrollWindow ==
    /\ Adjusted =>
          /\ ret.start <= ret.end
          /\ ret.end <= call.data_len
          /\ (call.max_lines > 0 /\ call.data_len > 0) =>
                (ret.start <= call.selected_idx /\ call.selected_idx < ret.end)
    /\ mpc # "aborted"

\* no row to show and no line to show it on: the window starts after its end, and
\* the panic of the slice aborts the process
C30_Failure ==
    /\ mpc = "aborted"
    /\ exit_code = 134
    /\ call.max_lines = 0
    /\ call.data_len = 0
    /\ call.selected_idx = 0
    /\ call.scroll_offset = 0
    /\ ret.start = 1
    /\ ret.end = 0

====
